---- MODULE Spec2Model ----
(***************************************************************************)
(* A model of the OData metadata explorer: the view-state store            *)
(* (state.ts), the load path of the input section (handleParse and the     *)
(* parser's failure conditions), and the diagram's graph builder           *)
(* (buildGraph).                                                           *)
(*                                                                         *)
(* Conventions.  A metadata document is an index into Docs (0 is null).    *)
(* An entity object is a reference [doc, idx] into allEntities of that     *)
(* document (NoEntity is null).  A type-reference string is kept           *)
(* tokenised: [collection, segs] stands for "Collection(a.b.c)" or "a.b.c" *)
(* with segs = <<a, b, c>>.  Type names and namespaces are single          *)
(* segments, so a full name is <<namespace, name>>.  Root element names    *)
(* are sequences of one-character strings.                                 *)
(***************************************************************************)
EXTENDS Integers, Sequences, FiniteSets, TLC

VARIABLES state, timers, last, g, pc, listeners, unsubscribed, calls,
          inflight, issued

vars == <<state, timers, last, g, pc, listeners, unsubscribed, calls,
          inflight, issued>>

(***************************************************************************)
(* Bounds of the model.                                                    *)
(***************************************************************************)
MaxPath == 2
MaxPending == 1
MaxListeners == 2
RootFan == 16
EntityFan == 9
ComplexFan == 7

(***************************************************************************)
(* Null values.                                                            *)
(***************************************************************************)
NoMetadata == 0
NoEntity == [doc |-> 0, idx |-> 0]
NoError == "<null>"

(***************************************************************************)
(* Sequence and string helpers.                                            *)
(***************************************************************************)
Last(s) == s[Len(s)]

\* String.prototype.toLowerCase on a sequence of characters.
LowerOf(c) ==
  LET upper == <<"A", "B", "C", "D", "E", "F", "G", "H", "I", "J", "K", "L", "M",
                 "N", "O", "P", "Q", "R", "S", "T", "U", "V", "W", "X", "Y", "Z">>
      lower == <<"a", "b", "c", "d", "e", "f", "g", "h", "i", "j", "k", "l", "m",
                 "n", "o", "p", "q", "r", "s", "t", "u", "v", "w", "x", "y", "z">>
  IN IF \E i \in 1..26 : upper[i] = c
       THEN lower[CHOOSE i \in 1..26 : upper[i] = c] ELSE c

toLowerCase(s) == [i \in 1..Len(s) |-> LowerOf(s[i])]

\* String.prototype.includes: sub occurs in s as a contiguous substring.
includes(s, sub) ==
  \E i \in 0..(Len(s) - Len(sub)) : SubSeq(s, i + 1, i + Len(sub)) = sub

(***************************************************************************)
(* Metadata documents (types.ts) and the documents the model loads.        *)
(***************************************************************************)
Prim(name) == [collection |-> FALSE, segs |-> <<"Edm", name>>]
CollOf(segs) == [collection |-> TRUE, segs |-> segs]
Prop(name, type) == [name |-> name, type |-> type]
Nav(name, target, isColl) == [name |-> name, targetEntity |-> target, isCollection |-> isColl]
Type(name, ns, props, navs) ==
  [name |-> name, namespace |-> ns, fullName |-> <<ns, name>>,
   properties |-> props, navigationProperties |-> navs]

\* Two small documents with different entities and complex types.
DocSmall1 ==
  [version |-> "4.0",
   allEntities |-> <<
     Type("A", "N", <<Prop("Id", Prim("Int32")), Prop("Items", CollOf(<<"N", "c_X">>))>>,
          <<Nav("Bs", "B", TRUE)>>),
     Type("B", "N", <<Prop("Id", Prim("Int32"))>>, <<Nav("A", "A", FALSE)>>) >>,
   allComplexTypes |-> <<
     Type("c_X", "N", <<Prop("Val", Prim("String"))>>, <<>>) >>]

DocSmall2 ==
  [version |-> "4.0",
   allEntities |-> <<
     Type("B", "M", <<Prop("Id", Prim("Guid")), Prop("Ys", CollOf(<<"M", "c_Y">>))>>,
          <<Nav("Cs", "C", TRUE)>>),
     Type("C", "M", <<Prop("Id", Prim("Guid"))>>, <<>>) >>,
   allComplexTypes |-> <<
     Type("c_Y", "M", <<Prop("Val", Prim("String"))>>, <<>>),
     Type("Misc_Data", "M", <<Prop("Val", Prim("String"))>>, <<>>) >>]

\* A cyclic document: A <-> B partner navigation, a self reference, a
\* navigation to an undeclared type, two properties to the same target,
\* recursively nested complex-type collections, a complex type that
\* navigates back to an entity.
DocCyclic ==
  [version |-> "4.0",
   allEntities |-> <<
     Type("A", "N",
          <<Prop("Id", Prim("Int32")),
            Prop("Items", CollOf(<<"N", "c_X">>)),
            Prop("Tags", CollOf(<<"Edm", "String">>)),
            Prop("More", CollOf(<<"c_X">>))>>,
          <<Nav("Bs", "B", TRUE), Nav("MainB", "B", FALSE),
            Nav("Self", "A", FALSE), Nav("Ext", "External", FALSE)>>),
     Type("B", "N",
          <<Prop("Id", Prim("Int32"))>>,
          <<Nav("A", "A", FALSE), Nav("Cs", "C", TRUE)>>),
     Type("C", "N",
          <<Prop("Id", Prim("Int32")), Prop("Ys", CollOf(<<"N", "c_Y">>))>>,
          <<Nav("B", "B", FALSE)>>) >>,
   allComplexTypes |-> <<
     Type("c_X", "N",
          <<Prop("Subs", CollOf(<<"N", "c_Y">>)), Prop("Same", CollOf(<<"N", "c_X">>))>>,
          <<Nav("Owner", "B", FALSE)>>),
     Type("c_Y", "N",
          <<Prop("Back", CollOf(<<"N", "c_X">>))>>,
          <<Nav("C", "C", FALSE)>>) >>]

\* A wide document: the root R has RootFan navigation properties to distinct
\* entities and one nested collection; E1 has EntityFan navigation
\* properties to distinct entities; c_Big has ComplexFan nested collections
\* and navigates to R and to F1.
EName(i) == "E" \o ToString(i)
FName(i) == "F" \o ToString(i)
CName(i) == "c_" \o ToString(i)

DocWide ==
  [version |-> "4.0",
   allEntities |->
     << Type("R", "W", <<Prop("Bigs", CollOf(<<"W", "c_Big">>))>>,
             [i \in 1..RootFan |-> Nav("to" \o EName(i), EName(i), TRUE)]) >>
     \o [i \in 1..RootFan |->
           IF i = 1
             THEN Type(EName(1), "W", <<Prop("Bigs", CollOf(<<"W", "c_Big">>))>>,
                       [j \in 1..EntityFan |-> Nav("to" \o FName(j), FName(j), FALSE)])
             ELSE Type(EName(i), "W", <<Prop("Bigs", CollOf(<<"W", "c_Big">>))>>, <<>>)]
     \o [j \in 1..EntityFan |-> Type(FName(j), "W", <<>>, <<Nav("R", "R", FALSE)>>)],
   allComplexTypes |->
     << Type("c_Big", "W",
             [k \in 1..ComplexFan |-> Prop("p" \o ToString(k), CollOf(<<"W", CName(k)>>))],
             <<Nav("R", "R", FALSE), Nav("F", FName(1), FALSE)>>) >>
     \o [k \in 1..ComplexFan |-> Type(CName(k), "W", <<>>, <<>>)]]

\* A document with clashing names: two entities named A in different
\* namespaces, and a complex type named B like the entity B.
DocClash ==
  [version |-> "4.0",
   allEntities |-> <<
     Type("A", "N",
          <<Prop("Parts", CollOf(<<"N", "B">>)), Prop("Xs", CollOf(<<"N", "c_X">>))>>,
          <<Nav("B", "B", FALSE), Nav("Other", "A", FALSE)>>),
     Type("B", "N", <<>>, <<Nav("As", "A", TRUE)>>),
     Type("A", "M", <<>>, <<Nav("B", "B", FALSE)>>) >>,
   allComplexTypes |-> <<
     Type("B", "N", <<Prop("Xs", CollOf(<<"N", "c_X">>))>>, <<>>),
     Type("c_X", "N", <<>>, <<Nav("A", "A", FALSE)>>) >>]

\* A document with repeated targets: c_X has as many nested collections of
\* c_Y as the cap of a complex type, declared before its one navigation
\* property, to B.
DocRepeat ==
  [version |-> "4.0",
   allEntities |-> <<
     Type("A", "N", <<Prop("Items", CollOf(<<"N", "c_X">>))>>, <<>>),
     Type("B", "N", <<Prop("Id", Prim("Int32"))>>, <<>>) >>,
   allComplexTypes |-> <<
     Type("c_X", "N",
          [k \in 1..6 |-> Prop("p" \o ToString(k), CollOf(<<"N", "c_Y">>))],
          <<Nav("Owner", "B", FALSE)>>),
     Type("c_Y", "N", <<Prop("Val", Prim("String"))>>, <<>>) >>]

\* A document in which expanding A changes the order of the visits: A and C
\* hold collections of c_X, B holds a collection of c_Y, and c_X refers to
\* c_Y, to five more complex types and, last, to the entity E1.
DocOrder ==
  [version |-> "4.0",
   allEntities |-> <<
     Type("R", "N", <<>>, <<Nav("A", "A", FALSE), Nav("B", "B", FALSE), Nav("C", "C", FALSE)>>),
     Type("A", "N", <<Prop("Xs", CollOf(<<"N", "c_X">>))>>, <<>>),
     Type("B", "N", <<Prop("Ys", CollOf(<<"N", "c_Y">>))>>, <<>>),
     Type("C", "N", <<Prop("Xs", CollOf(<<"N", "c_X">>))>>, <<>>),
     Type(EName(1), "N", <<>>, <<>>) >>,
   allComplexTypes |-> <<
     Type("c_X", "N",
          <<Prop("Ys", CollOf(<<"N", "c_Y">>))>>
            \o [k \in 1..5 |-> Prop("p" \o ToString(k), CollOf(<<"N", CName(k)>>))],
          <<Nav("Owner", EName(1), FALSE)>>),
     Type("c_Y", "N", <<>>, <<>>) >>
     \o [k \in 1..5 |-> Type(CName(k), "N", <<>>, <<>>)]]

\* The characters of a type name, as a sequence of one-character strings.
RECURSIVE digits(_)
digits(i) == IF i < 10 THEN <<ToString(i)>> ELSE Append(digits(i \div 10), ToString(i % 10))

chars(name) ==
  CASE name \in {"A", "B", "C", "R"} -> <<name>>
    [] name = "c_X" -> <<"c", "_", "X">>
    [] name = "c_Y" -> <<"c", "_", "Y">>
    [] name = "c_Big" -> <<"c", "_", "B", "i", "g">>
    [] name = "Misc_Data" -> <<"M", "i", "s", "c", "_", "D", "a", "t", "a">>
    [] name = "External" -> <<"E", "x", "t", "e", "r", "n", "a", "l">>
    [] \E i \in 1..RootFan : name = EName(i) ->
         <<"E">> \o digits(CHOOSE i \in 1..RootFan : name = EName(i))
    [] \E i \in 1..EntityFan : name = FName(i) ->
         <<"F">> \o digits(CHOOSE i \in 1..EntityFan : name = FName(i))
    [] \E i \in 1..ComplexFan : name = CName(i) ->
         <<"c", "_">> \o digits(CHOOSE i \in 1..ComplexFan : name = CName(i))

Docs == <<DocSmall1, DocSmall2, DocCyclic, DocWide, DocClash, DocRepeat, DocOrder>>

DocIds == 1..Len(Docs)

EntitiesOf(d) == IF d = NoMetadata THEN <<>> ELSE Docs[d].allEntities
ComplexTypesOf(d) == IF d = NoMetadata THEN <<>> ELSE Docs[d].allComplexTypes

\* The entity object behind a reference.
Ent(e) == Docs[e.doc].allEntities[e.idx]

EntityRefs(d) == {[doc |-> d, idx |-> i] : i \in 1..Len(EntitiesOf(d))}

(***************************************************************************)
(* The store (state.ts).  The fields of AppState are the fields of the     *)
(* record `state'; every method is an operator from the old state record   *)
(* (and its arguments) to the new one, as `this.state = {...this.state,    *)
(* ...}' computes it.                                                      *)
(***************************************************************************)
InitialState ==
  [metadata |-> NoMetadata,
   selectedEntity |-> NoEntity,
   searchQuery |-> <<>>,
   error |-> NoError,
   loading |-> FALSE,
   collapsedNamespaces |-> {},
   diagramRootEntity |-> NoEntity,
   diagramExpandedNodes |-> {},
   navigationPath |-> <<>>]

\* The listeners Set, in insertion order.  Set.prototype.add of a member
\* changes nothing; Set.prototype.delete removes it.
subscribe(ls, listener) ==
  IF \E i \in 1..Len(ls) : ls[i] = listener THEN ls ELSE Append(ls, listener)

unsubscribe(ls, listener) == SelectSeq(ls, LAMBDA l : l # listener)

\* notify that stops after the first listener.
notify_StopsAfterFirst(ls, s) ==
  [read |-> s, invoked |-> IF ls = <<>> THEN <<>> ELSE <<Head(ls)>>]

\* One round of notify(): listeners.forEach calls every member in insertion
\* order; a listener reads the store's state, which is s during the round.
notify(ls, s) == [read |-> s, invoked |-> ls]

\* setMetadata without the reset of the expanded set.
setMetadata_KeepsExpanded(s, metadata) ==
  [s EXCEPT !.metadata = metadata,
            !.selectedEntity = NoEntity,
            !.error = NoError,
            !.collapsedNamespaces = {},
            !.diagramRootEntity = NoEntity]

\* setMetadata that leaves the diagram root in place.
setMetadata_KeepsRoot(s, metadata) ==
  [s EXCEPT !.metadata = metadata,
            !.selectedEntity = NoEntity,
            !.error = NoError,
            !.collapsedNamespaces = {},
            !.diagramExpandedNodes = {}]

setMetadata(s, metadata) ==
  [s EXCEPT !.metadata = metadata,
            !.selectedEntity = NoEntity,
            !.error = NoError,
            !.collapsedNamespaces = {},
            !.diagramRootEntity = NoEntity,
            !.diagramExpandedNodes = {}]

\* selectEntity that makes every selection the diagram root.
selectEntity_AlwaysRoot(s, entity) ==
  LET expandedNodes == IF Cardinality(s.diagramExpandedNodes) > 0
                         THEN s.diagramExpandedNodes
                         ELSE IF entity # NoEntity THEN {Ent(entity).name} ELSE {}
  IN [s EXCEPT !.selectedEntity = entity,
               !.diagramRootEntity = entity,
               !.diagramExpandedNodes = expandedNodes,
               !.navigationPath = <<>>]

selectEntity(s, entity) ==
  LET diagramRoot == IF s.diagramRootEntity # NoEntity THEN s.diagramRootEntity ELSE entity
      expandedNodes == IF Cardinality(s.diagramExpandedNodes) > 0
                         THEN s.diagramExpandedNodes
                         ELSE IF entity # NoEntity THEN {Ent(entity).name} ELSE {}
  IN [s EXCEPT !.selectedEntity = entity,
               !.diagramRootEntity = diagramRoot,
               !.diagramExpandedNodes = expandedNodes,
               !.navigationPath = <<>>]

\* startDiagramFrom that stays inside the current drill-down.
startDiagramFrom_KeepsPath(s, entity) ==
  [s EXCEPT !.selectedEntity = entity,
            !.diagramRootEntity = entity,
            !.diagramExpandedNodes = {Ent(entity).name}]

startDiagramFrom(s, entity) ==
  [s EXCEPT !.selectedEntity = entity,
            !.diagramRootEntity = entity,
            !.diagramExpandedNodes = {Ent(entity).name},
            !.navigationPath = <<>>]

\* toggleDiagramNode that only ever expands.
toggleDiagramNode_NeverCollapses(s, entityName) ==
  [s EXCEPT !.diagramExpandedNodes = s.diagramExpandedNodes \cup {entityName}]

toggleDiagramNode(s, entityName) ==
  LET newExpanded == IF entityName \in s.diagramExpandedNodes
                       THEN s.diagramExpandedNodes \ {entityName}
                       ELSE s.diagramExpandedNodes \cup {entityName}
  IN [s EXCEPT !.diagramExpandedNodes = newExpanded]

\* Array.prototype.find over allEntities by name: the first match, 0 if none.
findEntity(d, entityName) ==
  LET es == EntitiesOf(d)
      hits == {i \in 1..Len(es) : es[i].name = entityName}
  IN IF hits = {} THEN 0 ELSE CHOOSE i \in hits : \A j \in hits : i <= j

\* selectFromDiagram that collapses every other node.
selectFromDiagram_ReplacesExpanded(s, entityName) ==
  IF s.metadata = NoMetadata THEN s
  ELSE LET i == findEntity(s.metadata, entityName) IN
       IF i = 0 THEN s
       ELSE [s EXCEPT !.selectedEntity = [doc |-> s.metadata, idx |-> i],
                      !.diagramExpandedNodes = {entityName}]

selectFromDiagram(s, entityName) ==
  IF s.metadata = NoMetadata THEN s
  ELSE LET i == findEntity(s.metadata, entityName) IN
       IF i = 0 THEN s
       ELSE [s EXCEPT !.selectedEntity = [doc |-> s.metadata, idx |-> i],
                      !.diagramExpandedNodes = s.diagramExpandedNodes \cup {entityName}]

\* resetDiagram that collapses to the selected entity instead of the root.
resetDiagram_ToSelection(s) ==
  LET root == s.selectedEntity
  IN [s EXCEPT !.diagramExpandedNodes = IF root # NoEntity THEN {Ent(root).name} ELSE {}]

resetDiagram(s) ==
  LET root == s.diagramRootEntity
  IN [s EXCEPT !.diagramExpandedNodes = IF root # NoEntity THEN {Ent(root).name} ELSE {}]

setSearchQuery(s, query) == [s EXCEPT !.searchQuery = query]

setError(s, error) == [s EXCEPT !.error = error, !.loading = FALSE]

setLoading(s, loading) == [s EXCEPT !.loading = loading]

toggleNamespaceCollapsed(s, namespace) ==
  LET newCollapsed == IF namespace \in s.collapsedNamespaces
                        THEN s.collapsedNamespaces \ {namespace}
                        ELSE s.collapsedNamespaces \cup {namespace}
  IN [s EXCEPT !.collapsedNamespaces = newCollapsed]

\* ct.fullName.endsWith(`.${name}`) for a single-segment name.
endsWithDotName(fullName, name) == Len(fullName) >= 2 /\ Last(fullName) = name

\* allComplexTypes.find(ct => ct.name === name || ct.fullName.endsWith('.' + name)):
\* the first match, 0 if none.
findComplexType(d, name) ==
  LET cs == ComplexTypesOf(d)
      hits == {i \in 1..Len(cs) : cs[i].name = name \/ endsWithDotName(cs[i].fullName, name)}
  IN IF hits = {} THEN 0 ELSE CHOOSE i \in hits : \A j \in hits : i <= j

\* String.prototype.replace(/^c_/, ''): the prefix "c_" is removed when the
\* string starts with it.
replaceCPrefix(cs) ==
  IF Len(cs) >= 2 /\ cs[1] = "c" /\ cs[2] = "_" THEN SubSeq(cs, 3, Len(cs)) ELSE cs

\* replace(/c_/, '') without the anchor: the first "c_" anywhere is removed.
replaceC(cs) ==
  LET hits == {i \in 1..(Len(cs) - 1) : cs[i] = "c" /\ cs[i + 1] = "_"}
  IN IF hits = {} THEN cs
     ELSE LET i == CHOOSE i \in hits : \A j \in hits : i <= j
          IN SubSeq(cs, 1, i - 1) \o SubSeq(cs, i + 2, Len(cs))

\* navigateInto whose display name loses a "c_" anywhere in the type name.
navigateInto_StripsAnywhere(s, propertyName, targetTypeName) ==
  IF s.metadata = NoMetadata THEN s
  ELSE IF findComplexType(s.metadata, targetTypeName) = 0 THEN s
  ELSE LET newStep == [kind |-> "complex", typeName |-> targetTypeName,
                       propertyName |-> propertyName,
                       displayName |-> replaceC(chars(targetTypeName))]
       IN [s EXCEPT !.navigationPath = Append(s.navigationPath, newStep)]

navigateInto(s, propertyName, targetTypeName) ==
  IF s.metadata = NoMetadata THEN s
  ELSE IF findComplexType(s.metadata, targetTypeName) = 0 THEN s
  ELSE LET displayName == replaceCPrefix(chars(targetTypeName))
           newStep == [kind |-> "complex", typeName |-> targetTypeName,
                       propertyName |-> propertyName, displayName |-> displayName]
       IN [s EXCEPT !.navigationPath = Append(s.navigationPath, newStep)]

navigateBack(s) ==
  IF Len(s.navigationPath) = 0 THEN s
  ELSE [s EXCEPT !.navigationPath = SubSeq(s.navigationPath, 1, Len(s.navigationPath) - 1)]

\* Array.prototype.slice(0, n) for n >= 0.
slice0(seq, n) == SubSeq(seq, 1, IF n < Len(seq) THEN n ELSE Len(seq))

\* navigateToIndex that cuts the path before the clicked step.
navigateToIndex_OffByOne(s, index) ==
  IF index < -1 THEN s
  ELSE IF index = -1 THEN [s EXCEPT !.navigationPath = <<>>]
  ELSE [s EXCEPT !.navigationPath = slice0(s.navigationPath, index)]

navigateToIndex(s, index) ==
  IF index < -1 THEN s
  ELSE IF index = -1 THEN [s EXCEPT !.navigationPath = <<>>]
  ELSE [s EXCEPT !.navigationPath = slice0(s.navigationPath, index + 1)]

\* The view shown by the detail panel: a complex type of the loaded
\* document, the selected entity, or nothing (kind "none").
NoView == [kind |-> "none", doc |-> 0, idx |-> 0]

\* getCurrentViewType that shows nothing when the last step's type is gone.
getCurrentViewType_NoFallThrough(s) ==
  IF s.metadata = NoMetadata THEN NoView
  ELSE IF Len(s.navigationPath) > 0
    THEN LET ci == findComplexType(s.metadata, Last(s.navigationPath).typeName)
         IN IF ci # 0 THEN [kind |-> "complex", doc |-> s.metadata, idx |-> ci] ELSE NoView
  ELSE IF s.selectedEntity # NoEntity
    THEN [kind |-> "entity", doc |-> s.selectedEntity.doc, idx |-> s.selectedEntity.idx]
  ELSE NoView

getCurrentViewType(s) ==
  IF s.metadata = NoMetadata THEN NoView
  ELSE LET ci == IF Len(s.navigationPath) > 0
                   THEN findComplexType(s.metadata, Last(s.navigationPath).typeName)
                   ELSE 0
       IN IF ci # 0 THEN [kind |-> "complex", doc |-> s.metadata, idx |-> ci]
          ELSE IF s.selectedEntity # NoEntity
            THEN [kind |-> "entity", doc |-> s.selectedEntity.doc, idx |-> s.selectedEntity.idx]
          ELSE NoView

NoName == "<null>"

\* propertyType.match(/^Collection\((.+)\)$/), then the inner type's last
\* dot segment looked up among the complex types of the loaded document.
isComplexTypeCollection(s, propertyType) ==
  IF ~propertyType.collection THEN [isCollection |-> FALSE, typeName |-> NoName]
  ELSE IF s.metadata = NoMetadata THEN [isCollection |-> TRUE, typeName |-> NoName]
  ELSE LET innerType == propertyType.segs
           typeName == Last(innerType)
           cs == ComplexTypesOf(s.metadata)
           isComplex == \E i \in 1..Len(cs) :
                           cs[i].name = typeName \/ cs[i].fullName = innerType
       IN [isCollection |-> TRUE, typeName |-> IF isComplex THEN typeName ELSE NoName]

(***************************************************************************)
(* The parser's failure conditions (parser.ts) and the load path of the    *)
(* input section (handleParse).  An XML text is       *)
(* described by what the parser looks at before it reads the schemas:      *)
(* whether it is blank, whether it is well-formed, the local name of its   *)
(* root element, whether a DataServices element exists, and the document   *)
(* its schemas describe.                                                   *)
(***************************************************************************)
Xml(blank, wellFormed, root, dataServices, doc) ==
  [blank |-> blank, wellFormed |-> wellFormed, root |-> root,
   dataServices |-> dataServices, doc |-> doc]

XmlInputs ==
  << Xml(TRUE, FALSE, <<>>, FALSE, 0),                          \* "   "
     Xml(FALSE, FALSE, <<>>, FALSE, 0),                         \* "<a><b></a>"
     Xml(FALSE, TRUE, <<"F", "o", "o">>, FALSE, 0),             \* "<Foo/>"
     Xml(FALSE, TRUE, <<"F", "o", "o">>, TRUE, 1),              \* "<Foo><DataServices>..."
     Xml(FALSE, TRUE, <<"E", "d", "m", "x">>, FALSE, 0),        \* "<edmx:Edmx/>"
     Xml(FALSE, TRUE, <<"E", "D", "M", "X">>, TRUE, 1),
     Xml(FALSE, TRUE, <<"E", "d", "m", "x">>, TRUE, 2) >>

MsgProvideXml == "Please provide XML content"
MsgXmlParseError == "XML Parse Error: <parsererror text>"
MsgRootMustBeEdmx == "Invalid OData metadata: Root element must be Edmx"
MsgMissingDataServices == "Invalid OData metadata: Missing DataServices element"

Throw(message) == [ok |-> FALSE, metadata |-> NoMetadata, message |-> message]

parseODataMetadata(xml) ==
  IF ~xml.wellFormed THEN Throw(MsgXmlParseError)
  ELSE IF ~includes(toLowerCase(xml.root), <<"e", "d", "m", "x">>)
    THEN Throw(MsgRootMustBeEdmx)
  ELSE IF ~xml.dataServices THEN Throw(MsgMissingDataServices)
  ELSE [ok |-> TRUE, metadata |-> xml.doc, message |-> NoError]

\* The store states after each store call of handleParse, in call order.
handleParseStates(s, xml) ==
  IF xml.blank THEN <<setError(s, MsgProvideXml)>>
  ELSE <<setLoading(s, TRUE), setError(setLoading(s, TRUE), NoError)>>

\* The store states after each store call of the setTimeout callback.
handleParseTimeoutStates(s, xml) ==
  LET r == parseODataMetadata(xml)
  IN IF r.ok THEN <<setMetadata(s, r.metadata), setLoading(setMetadata(s, r.metadata), FALSE)>>
     ELSE <<setError(s, r.message)>>

\* handleParse up to and including the setTimeout call: the returned flag
\* says whether the deferred parse was scheduled.
handleParse(s, xml) ==
  IF xml.blank
    THEN [state |-> setError(s, MsgProvideXml), scheduled |-> FALSE]
    ELSE [state |-> setError(setLoading(s, TRUE), NoError), scheduled |-> TRUE]

\* The callback clearing the loaded document when the parse fails.
handleParseTimeout_ClearsOnFailure(s, xml) ==
  LET r == parseODataMetadata(xml)
  IN IF r.ok THEN setLoading(setMetadata(s, r.metadata), FALSE)
     ELSE setError(setMetadata(s, NoMetadata), r.message)

\* The callback handed to setTimeout by handleParse.
handleParseTimeout(s, xml) ==
  LET r == parseODataMetadata(xml)
  IN IF r.ok THEN setLoading(setMetadata(s, r.metadata), FALSE)
     ELSE setError(s, r.message)

(***************************************************************************)
(* The URL and upload tabs of the input section.  A fetch settles in one   *)
(* of three ways: the promise rejects, the response is not ok, or the      *)
(* response text arrives; a file read settles with the file's text or with *)
(* the reader's error event.                                               *)
(***************************************************************************)
MsgEnterUrl == "Please enter a URL"
MsgFetchRejected == "Failed to fetch: <error.message>"
MsgFetchNotOk == "Failed to fetch: HTTP <status>: <statusText>"
MsgReadFailed == "Failed to read file"

\* handleParse called by a handler: its result and the store states after
\* each of its store calls.
parsed(s, x) ==
  [state |-> handleParse(s, XmlInputs[x]).state,
   scheduled |-> handleParse(s, XmlInputs[x]).scheduled,
   states |-> handleParseStates(s, XmlInputs[x])]

\* A handler that made the one store call leading to state t.
stored(t) == [state |-> t, scheduled |-> FALSE, states |-> <<t>>]

\* The #fetch-btn click handler up to its first await; blankUrl says that the
\* trimmed URL is empty, `scheduled' that the request was sent.
fetchClick(s, blankUrl) ==
  IF blankUrl THEN stored(setError(s, MsgEnterUrl))
  ELSE [stored(setLoading(s, TRUE)) EXCEPT !.scheduled = TRUE]

\* The turn after `await fetch(url)' with an empty catch block.
fetchSettled_SwallowsFailure(s, response) ==
  [state |-> s, scheduled |-> response.kind = "ok", states |-> <<>>]

\* The turn of the handler that runs when the fetch settles.  The promise
\* rejects or the response is not ok: the catch block sets the error.  The
\* response is ok: response.text() is called and the handler yields at its
\* second await without a store call; `scheduled' says that the text is
\* awaited.
fetchSettled(s, response) ==
  CASE response.kind = "rejected" -> stored(setError(s, MsgFetchRejected))
    [] response.kind = "notOk" -> stored(setError(s, MsgFetchNotOk))
    [] OTHER -> [state |-> s, scheduled |-> TRUE, states |-> <<>>]

\* The turn of the handler that runs when response.text() settles: the
\* text is handed to handleParse, or the body fails and the catch block
\* sets the error.
textSettled(s, result) ==
  IF result.kind = "text" THEN parsed(s, result.text)
  ELSE stored(setError(s, MsgFetchRejected))

\* reader.onerror clearing the loaded document as well.
readSettled_ClearsMetadata(s, result) ==
  IF result.kind = "text" THEN parsed(s, result.text)
  ELSE stored(setError(setMetadata(s, NoMetadata), MsgReadFailed))

\* reader.onload and reader.onerror of readFile.
readSettled(s, result) ==
  IF result.kind = "text" THEN parsed(s, result.text)
  ELSE stored(setError(s, MsgReadFailed))

(***************************************************************************)
(* parser.ts: parseNavigationProperty on the text of the Type attribute    *)
(* (a sequence of characters, empty when the attribute is missing), and    *)
(* extractRelationships on a document.                                     *)
(***************************************************************************)
startsWith(s, prefix) == Len(s) >= Len(prefix) /\ SubSeq(s, 1, Len(prefix)) = prefix

CollectionOpen == <<"C", "o", "l", "l", "e", "c", "t", "i", "o", "n", "(">>

\* type.match(/Collection\((.+)\)/) for a type that starts with
\* 'Collection(': the greedy group ends before the last ')' of the text and
\* holds at least one character.
matchCollection(type) ==
  LET closes == {i \in 1..Len(type) : type[i] = ")" /\ i > Len(CollectionOpen) + 1}
  IN IF closes = {} THEN [matched |-> FALSE, group |-> <<>>]
     ELSE [matched |-> TRUE,
           group |-> SubSeq(type, Len(CollectionOpen) + 1,
                            (CHOOSE i \in closes : \A j \in closes : i >= j) - 1)]

\* parts[parts.length - 1] of s.split('.').
lastPart(s) ==
  LET dots == {i \in 1..Len(s) : s[i] = "."}
  IN IF dots = {} THEN s
     ELSE SubSeq(s, (CHOOSE i \in dots : \A j \in dots : i >= j) + 1, Len(s))

\* The parser with a lazy group: the target ends before the first ')'.
parseNavigationProperty_FirstClose(type) ==
  LET isCollection == startsWith(type, CollectionOpen)
      closes == {i \in 1..Len(type) : type[i] = ")" /\ i > Len(CollectionOpen) + 1}
      group == SubSeq(type, Len(CollectionOpen) + 1,
                      (CHOOSE i \in closes : \A j \in closes : i <= j) - 1)
  IN [type |-> type,
      targetEntity |-> lastPart(IF isCollection /\ closes # {} THEN group ELSE type),
      isCollection |-> isCollection]

\* The type, targetEntity and isCollection fields of parseNavigationProperty.
parseNavigationProperty(type) ==
  LET isCollection == startsWith(type, CollectionOpen)
      match == matchCollection(type)
      targetEntity == IF isCollection /\ match.matched THEN match.group ELSE type
  IN [type |-> type, targetEntity |-> lastPart(targetEntity), isCollection |-> isCollection]

\* The inner loop of extractRelationships for one entity.
relationshipsOf(entityNames, entity) ==
  LET navs == entity.navigationProperties
      kept == SelectSeq([i \in 1..Len(navs) |-> i],
                        LAMBDA i : navs[i].targetEntity \in entityNames)
  IN [k \in 1..Len(kept) |->
        [sourceEntity |-> entity.name, targetEntity |-> navs[kept[k]].targetEntity,
         navProp |-> navs[kept[k]].name, isCollection |-> navs[kept[k]].isCollection]]

\* extractRelationships that drops an edge whose source and target were
\* already joined.
RECURSIVE extractRelationships_Dedup(_, _)
extractRelationships_Dedup(metadata, n) ==
  IF n = 0 THEN <<>>
  ELSE LET before == extractRelationships_Dedup(metadata, n - 1)
           entityNames == {metadata.allEntities[i].name : i \in 1..Len(metadata.allEntities)}
       IN before \o SelectSeq(relationshipsOf(entityNames, metadata.allEntities[n]),
                              LAMBDA r : \A k \in 1..Len(before) :
                                <<before[k].sourceEntity, before[k].targetEntity>>
                                  # <<r.sourceEntity, r.targetEntity>>)

\* extractRelationships over the first n entities of the document.
RECURSIVE extractRelationships(_, _)
extractRelationships(metadata, n) ==
  IF n = 0 THEN <<>>
  ELSE LET entityNames == {metadata.allEntities[i].name : i \in 1..Len(metadata.allEntities)}
       IN extractRelationships(metadata, n - 1)
            \o relationshipsOf(entityNames, metadata.allEntities[n])

(***************************************************************************)
(* The sidebar search: Store.getFilteredEntities and getMatchHint.  Here   *)
(* every string of an entity is a sequence of characters, a type reference *)
(* is its raw text, and an absent baseType is the empty sequence.          *)
(***************************************************************************)
\* String.prototype.trim; the only white space of the model is the blank.
trim(s) ==
  LET kept == {i \in 1..Len(s) : s[i] # " "}
  IN IF kept = {} THEN <<>>
     ELSE SubSeq(s, CHOOSE i \in kept : \A j \in kept : i <= j,
                 CHOOSE i \in kept : \A j \in kept : i >= j)

\* The callback of allEntities.filter in getFilteredEntities.
entityMatches(entity, query) ==
  \/ includes(toLowerCase(entity.name), query)
  \/ includes(toLowerCase(entity.namespace), query)
  \/ includes(toLowerCase(entity.fullName), query)
  \/ \E i \in 1..Len(entity.properties) :
       includes(toLowerCase(entity.properties[i].name), query)
  \/ \E i \in 1..Len(entity.properties) :
       includes(toLowerCase(entity.properties[i].type), query)
  \/ \E i \in 1..Len(entity.navigationProperties) :
       includes(toLowerCase(entity.navigationProperties[i].name), query)
  \/ \E i \in 1..Len(entity.navigationProperties) :
       includes(toLowerCase(entity.navigationProperties[i].targetEntity), query)
  \/ \E i \in 1..Len(entity.keyProperties) :
       includes(toLowerCase(entity.keyProperties[i]), query)
  \/ entity.baseType # <<>> /\ includes(toLowerCase(entity.baseType), query)

\* The filter without the trim of the query.
getFilteredEntities_NoTrim(s) ==
  LET query == toLowerCase(s.searchQuery)
  IN IF ~s.metadata.loaded THEN <<>>
     ELSE IF query = <<>> THEN s.metadata.allEntities
     ELSE SelectSeq(s.metadata.allEntities, LAMBDA entity : entityMatches(entity, query))

\* Store.getFilteredEntities on a state s; s.metadata.loaded is false for a
\* null metadata.
getFilteredEntities(s) ==
  LET query == trim(toLowerCase(s.searchQuery))
  IN IF ~s.metadata.loaded THEN <<>>
     ELSE IF query = <<>> THEN s.metadata.allEntities
     ELSE SelectSeq(s.metadata.allEntities, LAMBDA entity : entityMatches(entity, query))

\* Array.prototype.find as an index: the first index of the set, 0 when the
\* set is empty.
find(indices) ==
  IF indices = {} THEN 0 ELSE CHOOSE i \in indices : \A j \in indices : i <= j

\* String.prototype.replace(pattern, '') with a string pattern: the first
\* occurrence of the pattern is removed.
replaceFirst(s, pattern) ==
  LET at == find({i \in 1..(Len(s) - Len(pattern) + 1) :
                    SubSeq(s, i, i + Len(pattern) - 1) = pattern})
  IN IF at = 0 THEN s
     ELSE SubSeq(s, 1, at - 1) \o SubSeq(s, at + Len(pattern), Len(s))

\* A hint is its label and the text after the label; null is NoHint.
NoHint == [label |-> "null", text |-> <<>>]

\* The categories of getMatchHint tried in order, each with the hint it
\* gives; q is the lower-cased query.
hintCategories(entity, q) ==
  LET props == entity.properties
      navs == entity.navigationProperties
      keys == entity.keyProperties
      matchedProp == find({i \in 1..Len(props) : includes(toLowerCase(props[i].name), q)})
      matchedType == find({i \in 1..Len(props) : includes(toLowerCase(props[i].type), q)})
      matchedNav == find({i \in 1..Len(navs) : includes(toLowerCase(navs[i].name), q)})
      matchedTarget ==
        find({i \in 1..Len(navs) : includes(toLowerCase(navs[i].targetEntity), q)})
      matchedKey == find({i \in 1..Len(keys) : includes(toLowerCase(keys[i]), q)})
  IN << IF matchedProp = 0 THEN NoHint
        ELSE [label |-> "prop: ", text |-> props[matchedProp].name],
        IF matchedType = 0 THEN NoHint
        ELSE [label |-> "type: ",
              text |-> replaceFirst(props[matchedType].type, <<"E", "d", "m", ".">>)],
        IF matchedNav = 0 THEN NoHint
        ELSE [label |-> "nav: ", text |-> navs[matchedNav].name],
        IF matchedTarget = 0 THEN NoHint
        ELSE [label |-> "-> ", text |-> navs[matchedTarget].targetEntity],
        IF ~includes(toLowerCase(entity.namespace), q) THEN NoHint
        ELSE [label |-> "ns: ", text |-> entity.namespace],
        IF matchedKey = 0 THEN NoHint
        ELSE [label |-> "key: ", text |-> keys[matchedKey]] >>

\* A hint function that looks at the properties even when the name matches.
getMatchHint_NoSuppress(entity, query) ==
  LET hints == hintCategories(entity, toLowerCase(query))
      hit == find({i \in 1..Len(hints) : hints[i] # NoHint})
  IN IF query = <<>> \/ hit = 0 THEN NoHint ELSE hints[hit]

getMatchHint(entity, query) ==
  LET q == toLowerCase(query)
      hints == hintCategories(entity, q)
      hit == find({i \in 1..Len(hints) : hints[i] # NoHint})
  IN IF query = <<>> THEN NoHint
     ELSE IF includes(toLowerCase(entity.name), q) THEN NoHint
     ELSE IF hit = 0 THEN NoHint ELSE hints[hit]

\* The printable ASCII characters in the order of their UTF-16 code units,
\* U+0020 to U+007E without the grave accent U+0060.
Ascii ==
  <<" ", "!", "\"", "#", "$", "%", "&", "'", "(", ")", "*", "+", ",", "-", ".", "/",
    "0", "1", "2", "3", "4", "5", "6", "7", "8", "9", ":", ";", "<", "=", ">", "?", "@",
    "A", "B", "C", "D", "E", "F", "G", "H", "I", "J", "K", "L", "M",
    "N", "O", "P", "Q", "R", "S", "T", "U", "V", "W", "X", "Y", "Z",
    "[", "\\", "]", "^", "_",
    "a", "b", "c", "d", "e", "f", "g", "h", "i", "j", "k", "l", "m",
    "n", "o", "p", "q", "r", "s", "t", "u", "v", "w", "x", "y", "z",
    "{", "|", "}", "~">>

\* String.prototype.charCodeAt of a character.
charCodeAt(c) ==
  LET i == CHOOSE k \in 1..Len(Ascii) : Ascii[k] = c
  IN IF i <= 64 THEN 31 + i ELSE 32 + i

\* The comparison Array.prototype.sort() uses without a compare function:
\* strings by their UTF-16 code units, a proper prefix first.
RECURSIVE defaultCompare(_, _)
defaultCompare(a, b) ==
  IF a = <<>> THEN (IF b = <<>> THEN 0 ELSE -1)
  ELSE IF b = <<>> THEN 1
  ELSE IF charCodeAt(Head(a)) < charCodeAt(Head(b)) THEN -1
  ELSE IF charCodeAt(Head(a)) > charCodeAt(Head(b)) THEN 1
  ELSE defaultCompare(Tail(a), Tail(b))

\* The characters of Ascii in the order of the root collation at primary
\* strength: blank, punctuation, symbols, digits, letters without regard to
\* case.
Collation ==
  <<" ", "_", "-", ",", ";", ":", "!", "?", ".", "'", "\"", "(", ")", "[", "]", "{", "}",
    "@", "*", "/", "\\", "&", "#", "%", "^", "+", "<", "=", ">", "|", "~", "$",
    "0", "1", "2", "3", "4", "5", "6", "7", "8", "9",
    "a", "b", "c", "d", "e", "f", "g", "h", "i", "j", "k", "l", "m",
    "n", "o", "p", "q", "r", "s", "t", "u", "v", "w", "x", "y", "z">>

\* The weight of a character in the root collation at primary strength.
primaryWeight(c) == 10 * (CHOOSE i \in 1..Len(Collation) : Collation[i] = LowerOf(c))

\* String.prototype.toUpperCase on a character.
UpperOf(c) ==
  LET upper == <<"A", "B", "C", "D", "E", "F", "G", "H", "I", "J", "K", "L", "M",
                 "N", "O", "P", "Q", "R", "S", "T", "U", "V", "W", "X", "Y", "Z">>
      lower == <<"a", "b", "c", "d", "e", "f", "g", "h", "i", "j", "k", "l", "m",
                 "n", "o", "p", "q", "r", "s", "t", "u", "v", "w", "x", "y", "z">>
  IN IF \E i \in 1..26 : lower[i] = c
       THEN upper[CHOOSE i \in 1..26 : lower[i] = c] ELSE c

\* The default locales whose collation is written out below: English (the
\* root collation) and the tailorings of Danish, Czech, Estonian,
\* Lithuanian and Hungarian.
Locales == {"en", "da", "cs", "et", "lt", "hu"}

\* localeCompare is called without a locale: the default locale of the
\* host decides, and the code does not restrict it.  A host is a locale of
\* Locales, or another locale, whose collation is known here only as the
\* rank it gives each of the names at hand: any ranks, equal ranks for
\* names the locale does not tell apart.
Hosts(names) ==
  LET ranks == {f \in [names -> 1..Cardinality(names)] :
                  \E m \in 0..Cardinality(names) : {f[n] : n \in names} = 1..m}
  IN {[locale |-> l, rank |-> <<>>] : l \in Locales}
       \cup {[locale |-> "other", rank |-> f] : f \in ranks}

\* A collation element: primary, secondary and tertiary weight.
Element(p, s, t) == [p |-> p, s |-> s, t |-> t]

\* The element of a character that stands by itself.  Estonian puts z
\* after s; Lithuanian gives y the primary weight of i and a secondary
\* difference; the lower-case letter has the lower tertiary weight, in
\* Danish the upper-case letter.
collationElement(locale, c) ==
  LET lower == LowerOf(c)
      cased == lower # UpperOf(c)
      p == CASE locale = "et" /\ lower = "z" -> primaryWeight("s") + 5
             [] locale = "lt" /\ lower = "y" -> primaryWeight("i")
             [] OTHER -> primaryWeight(lower)
      t == IF ~cased THEN 0
           ELSE IF (c = lower) = (locale # "da") THEN 0 ELSE 2
  IN Element(p, IF locale = "lt" /\ lower = "y" THEN 1 ELSE 0, t)

\* The digraphs and the trigraph that Hungarian sorts as letters of their
\* own, each after its first letter.
HungarianLetters ==
  {<<"c", "s">>, <<"d", "z">>, <<"d", "z", "s">>, <<"g", "y">>, <<"l", "y">>, <<"n", "y">>,
   <<"s", "z">>, <<"t", "y">>, <<"z", "s">>}

\* Czech sorts ch as a letter after h.
CzechContractions ==
  LET w == primaryWeight("h") + 5
  IN {[text |-> <<"c", "h">>, elements |-> <<Element(w, 0, 0)>>],
      [text |-> <<"c", "H">>, elements |-> <<Element(w, 0, 1)>>],
      [text |-> <<"C", "h">>, elements |-> <<Element(w, 0, 2)>>],
      [text |-> <<"C", "H">>, elements |-> <<Element(w, 0, 3)>>]}

\* Danish sorts aa as a letter after z, upper case first.
DanishContractions ==
  LET w == primaryWeight("z") + 5
  IN {[text |-> <<"A", "A">>, elements |-> <<Element(w, 0, 0)>>],
      [text |-> <<"A", "a">>, elements |-> <<Element(w, 0, 1)>>],
      [text |-> <<"a", "a">>, elements |-> <<Element(w, 0, 2)>>]}

\* Hungarian sorts a letter of HungarianLetters after its first character
\* (dzs after dz), in lower case, capitalised or in upper case; with its
\* first character doubled it sorts as the letter twice, with a tertiary
\* difference.
HungarianContractions ==
  UNION {LET w == primaryWeight(d[1]) + Len(d) + 3
             title == <<UpperOf(d[1])>> \o Tail(d)
             upper == [i \in 1..Len(d) |-> UpperOf(d[i])]
         IN {[text |-> d, elements |-> <<Element(w, 0, 0)>>],
             [text |-> <<d[1]>> \o d,
              elements |-> <<Element(w, 0, 1), Element(w, 0, 0)>>],
             [text |-> title, elements |-> <<Element(w, 0, 2)>>],
             [text |-> <<title[1]>> \o d,
              elements |-> <<Element(w, 0, 3), Element(w, 0, 0)>>],
             [text |-> upper, elements |-> <<Element(w, 0, 4)>>],
             [text |-> <<upper[1]>> \o upper,
              elements |-> <<Element(w, 0, 5), Element(w, 0, 4)>>]} :
           d \in HungarianLetters}

\* The texts a locale sorts as a unit, each with its elements.
contractions(locale) ==
  CASE locale = "cs" -> CzechContractions
    [] locale = "da" -> DanishContractions
    [] locale = "hu" -> HungarianContractions
    [] OTHER -> {}

\* The collation elements of a text: at each place the longest text of
\* contractions(locale) that starts there, or else the character.
RECURSIVE collationElements(_, _)
collationElements(locale, text) ==
  LET matches == {c \in contractions(locale) :
                    /\ Len(c.text) <= Len(text)
                    /\ SubSeq(text, 1, Len(c.text)) = c.text}
      longest == CHOOSE c \in matches : \A d \in matches : Len(d.text) <= Len(c.text)
  IN IF text = <<>> THEN <<>>
     ELSE IF matches # {}
       THEN longest.elements
              \o collationElements(locale, SubSeq(text, Len(longest.text) + 1, Len(text)))
     ELSE <<collationElement(locale, Head(text))>> \o collationElements(locale, Tail(text))

\* The comparison of two sequences of weights: weight by weight, a proper
\* prefix first.
RECURSIVE compareWeights(_, _)
compareWeights(a, b) ==
  IF a = <<>> THEN (IF b = <<>> THEN 0 ELSE -1)
  ELSE IF b = <<>> THEN 1
  ELSE IF Head(a) < Head(b) THEN -1
  ELSE IF Head(a) > Head(b) THEN 1
  ELSE compareWeights(Tail(a), Tail(b))

\* String.prototype.localeCompare on a host: negative, 0 or positive.  For
\* a locale of Locales the primary weights decide (digits are characters,
\* not numbers), then the secondary, then the tertiary; for another locale
\* the ranks of the host decide.
localeCompare(host, a, b) ==
  LET ea == collationElements(host.locale, a)
      eb == collationElements(host.locale, b)
      primary == compareWeights([k \in 1..Len(ea) |-> ea[k].p], [k \in 1..Len(eb) |-> eb[k].p])
      secondary == compareWeights([k \in 1..Len(ea) |-> ea[k].s], [k \in 1..Len(eb) |-> eb[k].s])
      tertiary == compareWeights([k \in 1..Len(ea) |-> ea[k].t], [k \in 1..Len(eb) |-> eb[k].t])
  IN IF host.locale \notin Locales THEN compareWeights(<<host.rank[a]>>, <<host.rank[b]>>)
     ELSE IF primary # 0 THEN primary
     ELSE IF secondary # 0 THEN secondary
     ELSE tertiary

\* Array.prototype.sort: compare[i][j] is the result of the comparison of
\* arr[i] with arr[j]; elements that compare equal keep their order.
sort(arr, compare) ==
  LET before(i, j) ==
        \/ compare[i][j] < 0
        \/ compare[i][j] = 0 /\ i < j
      at(k) == CHOOSE i \in 1..Len(arr) :
                 Cardinality({j \in 1..Len(arr) : before(j, i)}) = k - 1
  IN [k \in 1..Len(arr) |-> arr[at(k)]]

DefaultNamespace == <<"D", "e", "f", "a", "u", "l", "t">>

\* Store.getEntitiesByNamespace: the filtered entities grouped by
\* `entity.namespace || 'Default''; the keys in order of insertion, each
\* group in the order of the filtered entities.
getEntitiesByNamespace(s) ==
  LET entities == getFilteredEntities(s)
      ns(e) == IF e.namespace = <<>> THEN DefaultNamespace ELSE e.namespace
      firsts == {i \in 1..Len(entities) :
                   \A j \in 1..(i - 1) : ns(entities[j]) # ns(entities[i])}
      first(k) == CHOOSE i \in firsts : Cardinality({j \in firsts : j < i}) = k - 1
      group(key) == SelectSeq(entities, LAMBDA e : ns(e) = key)
  IN [k \in 1..Cardinality(firsts) |->
        [namespace |-> ns(entities[first(k)]),
         entities |-> group(ns(entities[first(k)]))]]

\* renderEntityList on a host: the entities of one group sorted by name,
\* each item with the hint
\* `searchQuery ? getMatchHint(entity, searchQuery) : null'.
renderEntityList(entities, searchQuery, host) ==
  LET byName == [i \in 1..Len(entities) |-> [j \in 1..Len(entities) |->
                   localeCompare(host, entities[i].name, entities[j].name)]]
      sorted == sort(entities, byName)
  IN [k \in 1..Len(sorted) |->
        [entity |-> sorted[k],
         hint |-> IF searchQuery # <<>> THEN getMatchHint(sorted[k], searchQuery)
                  ELSE NoHint]]

\* The items of the groups, one group after the other.
RECURSIVE renderGroups(_, _, _)
renderGroups(groups, searchQuery, host) ==
  IF groups = <<>> THEN <<>>
  ELSE renderEntityList(Head(groups).entities, searchQuery, host)
         \o renderGroups(Tail(groups), searchQuery, host)

\* The entity items renderNamespaceList writes, in display order: the
\* groups of getEntitiesByNamespace in the order of their sorted keys, each
\* group as renderEntityList renders it; nothing without metadata.  The
\* keys are sorted by code units, whatever the host.
renderNamespaceList(s, host) ==
  LET grouped == getEntitiesByNamespace(s)
      byKey == [i \in 1..Len(grouped) |-> [j \in 1..Len(grouped) |->
                  defaultCompare(grouped[i].namespace, grouped[j].namespace)]]
  IN IF ~s.metadata.loaded THEN <<>>
     ELSE renderGroups(sort(grouped, byKey), s.searchQuery, host)

(***************************************************************************)
(* The graph builder (buildGraph of the diagram component).  `g' holds the   *)
(* locals of one call: the BFS queue, the visited set, the emitted nodes,  *)
(* the final value of childCount for each emitted node (0 for a leaf), and *)
(* the emitted links.                                                      *)
(***************************************************************************)
Cx(d, i) == Docs[d].allComplexTypes[i]

\* new Map(list.map(x => [x.name, x])).get(name): the last entry of that
\* name, 0 if there is none.
mapGet(list, name) ==
  LET hits == {i \in 1..Len(list) : list[i].name = name}
  IN IF hits = {} THEN 0 ELSE CHOOSE i \in hits : \A j \in hits : i >= j

RECURSIVE getNestedCollectionsFrom(_, _, _)
getNestedCollectionsFrom(s, props, i) ==
  IF i > Len(props) THEN <<>>
  ELSE LET check == isComplexTypeCollection(s, props[i].type)
           rest == getNestedCollectionsFrom(s, props, i + 1)
       IN IF check.isCollection /\ check.typeName # NoName
            THEN <<[propName |-> props[i].name, typeName |-> check.typeName]>> \o rest
            ELSE rest

getNestedCollections(s, props) == getNestedCollectionsFrom(s, props, 1)

QEntity(ref, depth) == [kind |-> "entity", doc |-> ref.doc, idx |-> ref.idx, depth |-> depth]
QComplex(d, i, depth) == [kind |-> "complex", doc |-> d, idx |-> i, depth |-> depth]

\* The child loop with `childCount > maxChildren' as its break test.
RECURSIVE pushChildren_OffByOne(_, _, _, _, _)
pushChildren_OffByOne(cands, i, queue, childCount, maxChildren) ==
  IF i > Len(cands) \/ childCount > maxChildren
    THEN [queue |-> queue, childCount |-> childCount]
  ELSE IF cands[i].kind # "skip"
    THEN pushChildren_OffByOne(cands, i + 1, Append(queue, cands[i]), childCount + 1, maxChildren)
  ELSE pushChildren_OffByOne(cands, i + 1, queue, childCount, maxChildren)

\* One `for (...) { if (childCount >= maxChildren) break; ... }' loop of
\* buildGraph: cands[i] is the queue item the i-th property would push, or
\* a record of kind "skip" when its target is unresolved or already visited.
RECURSIVE pushChildren(_, _, _, _, _)
pushChildren(cands, i, queue, childCount, maxChildren) ==
  IF i > Len(cands) \/ childCount >= maxChildren
    THEN [queue |-> queue, childCount |-> childCount]
  ELSE IF cands[i].kind # "skip"
    THEN pushChildren(cands, i + 1, Append(queue, cands[i]), childCount + 1, maxChildren)
  ELSE pushChildren(cands, i + 1, queue, childCount, maxChildren)

Skip == [kind |-> "skip", doc |-> 0, idx |-> 0, depth |-> 0]

\* A visited set that never reports a name as visited.
hasVisited_Never(visited, name) == FALSE

\* visited.has(name).
hasVisited(visited, name) == name \in visited

navCandidates(d, navs, visited, depth) ==
  [i \in 1..Len(navs) |->
     LET t == mapGet(EntitiesOf(d), navs[i].targetEntity)
     IN IF t # 0 /\ ~hasVisited(visited, navs[i].targetEntity)
          THEN QEntity([doc |-> d, idx |-> t], depth + 1) ELSE Skip]

nestedCandidates(d, nested, visited, depth) ==
  [i \in 1..Len(nested) |->
     LET t == mapGet(ComplexTypesOf(d), nested[i].typeName)
     IN IF t # 0 /\ ~hasVisited(visited, nested[i].typeName)
          THEN QComplex(d, t, depth + 1) ELSE Skip]

MaxChildrenRoot == 15
MaxChildrenEntity == 8
MaxChildrenComplex == 6

InitialGraph(s) ==
  [queue |-> <<QEntity(s.diagramRootEntity, 0)>>,
   visited |-> {},
   nodes |-> <<>>,
   childCounts |-> <<>>,
   links |-> <<>>]

NoGraph == [queue |-> <<>>, visited |-> {}, nodes |-> <<>>, childCounts |-> <<>>, links |-> <<>>]

\* The entity branch without `if (visited.has(entity.name)) continue'.
visitEntity_NoContinue(s, G, item) ==
  LET entity == Docs[item.doc].allEntities[item.idx]
      depth == item.depth
      visited == G.visited \cup {entity.name}
      isRoot == entity.name = Ent(s.diagramRootEntity).name
      isExpanded == entity.name \in s.diagramExpandedNodes
      isSelected == s.selectedEntity # NoEntity /\ Ent(s.selectedEntity).name = entity.name
      nestedCollections == getNestedCollections(s, entity.properties)
      node == [id |-> entity.name, name |-> entity.name, kind |-> "entity",
               doc |-> item.doc, idx |-> item.idx,
               isRoot |-> isRoot, isSelected |-> isSelected, isExpanded |-> isExpanded,
               relationshipCount |-> Len(entity.navigationProperties),
               collectionCount |-> Len(nestedCollections),
               depth |-> depth]
      maxChildren == IF isRoot THEN MaxChildrenRoot ELSE MaxChildrenEntity
      afterNavs == pushChildren(navCandidates(s.metadata, entity.navigationProperties, visited, depth),
                                1, Tail(G.queue), 0, maxChildren)
      afterNested == pushChildren(nestedCandidates(s.metadata, nestedCollections, visited, depth),
                                  1, afterNavs.queue, afterNavs.childCount, maxChildren)
  IN [G EXCEPT !.visited = visited,
               !.nodes = Append(G.nodes, node),
               !.queue = IF isExpanded \/ isRoot THEN afterNested.queue ELSE Tail(G.queue),
               !.childCounts = Append(G.childCounts,
                                      IF isExpanded \/ isRoot THEN afterNested.childCount ELSE 0)]

\* The body of `while (queue.length > 0)' for an entity item.
visitEntity(s, G, item) ==
  LET entity == Docs[item.doc].allEntities[item.idx]
      depth == item.depth
      visited == G.visited \cup {entity.name}
      isRoot == entity.name = Ent(s.diagramRootEntity).name
      isExpanded == entity.name \in s.diagramExpandedNodes
      isSelected == s.selectedEntity # NoEntity /\ Ent(s.selectedEntity).name = entity.name
      nestedCollections == getNestedCollections(s, entity.properties)
      node == [id |-> entity.name, name |-> entity.name, kind |-> "entity",
               doc |-> item.doc, idx |-> item.idx,
               isRoot |-> isRoot, isSelected |-> isSelected, isExpanded |-> isExpanded,
               relationshipCount |-> Len(entity.navigationProperties),
               collectionCount |-> Len(nestedCollections),
               depth |-> depth]
      maxChildren == IF isRoot THEN MaxChildrenRoot ELSE MaxChildrenEntity
      afterNavs == pushChildren(navCandidates(s.metadata, entity.navigationProperties, visited, depth),
                                1, Tail(G.queue), 0, maxChildren)
      afterNested == pushChildren(nestedCandidates(s.metadata, nestedCollections, visited, depth),
                                  1, afterNavs.queue, afterNavs.childCount, maxChildren)
  IN IF hasVisited(G.visited, entity.name) THEN [G EXCEPT !.queue = Tail(G.queue)]
     ELSE [G EXCEPT !.visited = visited,
                    !.nodes = Append(G.nodes, node),
                    !.queue = IF isExpanded \/ isRoot THEN afterNested.queue ELSE Tail(G.queue),
                    !.childCounts = Append(G.childCounts,
                                           IF isExpanded \/ isRoot THEN afterNested.childCount ELSE 0)]

\* The complex-type branch with its two child loops exchanged: navigation
\* targets first, nested collections second.
visitComplex_NavsFirst(s, G, item) ==
  LET complexType == Cx(item.doc, item.idx)
      depth == item.depth
      visited == G.visited \cup {complexType.name}
      isExpanded == complexType.name \in s.diagramExpandedNodes
      nestedCollections == getNestedCollections(s, complexType.properties)
      node == [id |-> complexType.name, name |-> complexType.name, kind |-> "complex",
               doc |-> item.doc, idx |-> item.idx,
               isRoot |-> FALSE, isSelected |-> FALSE, isExpanded |-> isExpanded,
               relationshipCount |-> Len(complexType.navigationProperties),
               collectionCount |-> Len(nestedCollections),
               depth |-> depth]
      maxChildren == MaxChildrenComplex
      afterNavs == pushChildren(navCandidates(s.metadata, complexType.navigationProperties, visited, depth),
                                1, Tail(G.queue), 0, maxChildren)
      afterNested == pushChildren(nestedCandidates(s.metadata, nestedCollections, visited, depth),
                                  1, afterNavs.queue, afterNavs.childCount, maxChildren)
  IN IF hasVisited(G.visited, complexType.name) THEN [G EXCEPT !.queue = Tail(G.queue)]
     ELSE [G EXCEPT !.visited = visited,
                    !.nodes = Append(G.nodes, node),
                    !.queue = IF isExpanded THEN afterNested.queue ELSE Tail(G.queue),
                    !.childCounts = Append(G.childCounts,
                                           IF isExpanded THEN afterNested.childCount ELSE 0)]

\* The body of `while (queue.length > 0)' for a complex-type item.
visitComplex(s, G, item) ==
  LET complexType == Cx(item.doc, item.idx)
      depth == item.depth
      visited == G.visited \cup {complexType.name}
      isExpanded == complexType.name \in s.diagramExpandedNodes
      nestedCollections == getNestedCollections(s, complexType.properties)
      node == [id |-> complexType.name, name |-> complexType.name, kind |-> "complex",
               doc |-> item.doc, idx |-> item.idx,
               isRoot |-> FALSE, isSelected |-> FALSE, isExpanded |-> isExpanded,
               relationshipCount |-> Len(complexType.navigationProperties),
               collectionCount |-> Len(nestedCollections),
               depth |-> depth]
      maxChildren == MaxChildrenComplex
      afterNested == pushChildren(nestedCandidates(s.metadata, nestedCollections, visited, depth),
                                  1, Tail(G.queue), 0, maxChildren)
      afterNavs == pushChildren(navCandidates(s.metadata, complexType.navigationProperties, visited, depth),
                                1, afterNested.queue, afterNested.childCount, maxChildren)
  IN IF hasVisited(G.visited, complexType.name) THEN [G EXCEPT !.queue = Tail(G.queue)]
     ELSE [G EXCEPT !.visited = visited,
                    !.nodes = Append(G.nodes, node),
                    !.queue = IF isExpanded THEN afterNavs.queue ELSE Tail(G.queue),
                    !.childCounts = Append(G.childCounts,
                                           IF isExpanded THEN afterNavs.childCount ELSE 0)]

\* One iteration of a loop that takes the newest queue item (queue.pop()).
bfsIteration_Stack(s, G) ==
  LET item == G.queue[Len(G.queue)]
      rotated == [G EXCEPT !.queue = <<item>> \o SubSeq(G.queue, 1, Len(G.queue) - 1)]
  IN IF item.kind = "entity" THEN visitEntity(s, rotated, item)
     ELSE visitComplex(s, rotated, item)

\* One iteration of the BFS loop: queue.shift() and the branch on item.kind.
bfsIteration(s, G) ==
  LET item == Head(G.queue)
  IN IF item.kind = "entity" THEN visitEntity(s, G, item) ELSE visitComplex(s, G, item)

\* The BFS loop run to its end: `while (queue.length > 0)'.
RECURSIVE bfsLoop(_, _)
bfsLoop(s, G) == IF G.queue = <<>> THEN G ELSE bfsLoop(s, bfsIteration(s, G))

\* nodeMap.get(id): the node last stored under that id, 0 if none.
nodeMapGet(nodes, id) ==
  LET hits == {i \in 1..Len(nodes) : nodes[i].id = id}
  IN IF hits = {} THEN 0 ELSE CHOOSE i \in hits : \A j \in hits : i >= j

\* A link key that keeps the order of its two identifiers.
linkKey_Ordered(a, b) == <<a, b>>

\* [a, b].sort().join('|'): one key per unordered pair of identifiers
\* (identifiers of the model contain no '|').
linkKey(a, b) == {a, b}

\* The link candidates with every navigation property taken for a
\* collection.
linkCandidates_AllCollections(s, node) ==
  LET type == IF node.kind = "entity" THEN Docs[node.doc].allEntities[node.idx]
              ELSE Cx(node.doc, node.idx)
      navProps == type.navigationProperties
      nestedCollections == getNestedCollections(s, type.properties)
  IN [i \in 1..Len(navProps) |->
        [target |-> navProps[i].targetEntity, isCollection |-> TRUE,
         isNested |-> FALSE, navProperty |-> navProps[i].name]]
     \o [i \in 1..Len(nestedCollections) |->
           [target |-> nestedCollections[i].typeName, isCollection |-> TRUE,
            isNested |-> TRUE, navProperty |-> nestedCollections[i].propName]]

\* The properties a node's links are drawn from, in the order of the link
\* pass: navigation properties, then nested collections.
linkCandidates(s, node) ==
  LET type == IF node.kind = "entity" THEN Docs[node.doc].allEntities[node.idx]
              ELSE Cx(node.doc, node.idx)
      navProps == type.navigationProperties
      nestedCollections == getNestedCollections(s, type.properties)
  IN [i \in 1..Len(navProps) |->
        [target |-> navProps[i].targetEntity, isCollection |-> navProps[i].isCollection,
         isNested |-> FALSE, navProperty |-> navProps[i].name]]
     \o [i \in 1..Len(nestedCollections) |->
           [target |-> nestedCollections[i].typeName, isCollection |-> TRUE,
            isNested |-> TRUE, navProperty |-> nestedCollections[i].propName]]

\* The inner loops of the link pass for the node at index n.
RECURSIVE addLinks(_, _, _, _, _)
addLinks(nodes, n, cands, i, acc) ==
  IF i > Len(cands) THEN acc
  ELSE LET targetNode == nodeMapGet(nodes, cands[i].target)
           key == IF targetNode = 0 THEN {} ELSE linkKey(nodes[n].id, nodes[targetNode].id)
       IN IF targetNode # 0 /\ targetNode # n /\ key \notin acc.linkSet
            THEN addLinks(nodes, n, cands, i + 1,
                          [linkSet |-> acc.linkSet \cup {key},
                           links |-> Append(acc.links,
                                            [source |-> n, target |-> targetNode,
                                             isCollection |-> cands[i].isCollection,
                                             isNested |-> cands[i].isNested,
                                             navProperty |-> cands[i].navProperty])])
            ELSE addLinks(nodes, n, cands, i + 1, acc)

\* A link pass that draws links out of every node.
linksFrom_Always(node) == TRUE

\* A link pass that draws links out of the root only.
linksFrom_RootOnly(node) == node.isRoot

\* Whether the link pass draws links out of a node.
linksFrom(node) == node.isExpanded \/ node.isRoot

\* The link pass: `for (const node of nodes)'.
RECURSIVE buildLinks(_, _, _, _)
buildLinks(s, nodes, n, acc) ==
  IF n > Len(nodes) THEN acc.links
  ELSE IF linksFrom(nodes[n])
    THEN buildLinks(s, nodes, n + 1, addLinks(nodes, n, linkCandidates(s, nodes[n]), 1, acc))
  ELSE buildLinks(s, nodes, n + 1, acc)

(***************************************************************************)
(* The diagram's layout (layoutNodes, calculateNodeWidth).  A coordinate   *)
(* is kept doubled (x2 = 2 * x), so that the half widths of the code stay  *)
(* integers.                                                               *)
(***************************************************************************)
NODE_PADDING == 12
CHAR_WIDTH == 7
LEVEL_HEIGHT == 80
NODE_SPACING == 20

calculateNodeWidth(name) ==
  LET w == Len(name) * CHAR_WIDTH + NODE_PADDING * 2 IN IF w > 60 THEN w ELSE 60

\* levelNodes.reduce((sum, n) => sum + n.width + NODE_SPACING, init) over
\* the nodes at the given indices.
RECURSIVE sumWidths(_, _, _)
sumWidths(nodes, indices, init) ==
  IF indices = {} THEN init
  ELSE LET i == CHOOSE i \in indices : TRUE
       IN sumWidths(nodes, indices \ {i}, init) + nodes[i].width + NODE_SPACING

\* layoutNodes with the reduce started at 0.
layoutNodes_ReduceFromZero(nodes) ==
  [i \in 1..Len(nodes) |->
     LET level == {j \in 1..Len(nodes) : nodes[j].depth = nodes[i].depth}
         totalWidth == sumWidths(nodes, level, 0)
         x == sumWidths(nodes, {j \in level : j < i}, 0)
     IN [nodes[i] EXCEPT !.x2 = 2 * x - totalWidth + nodes[i].width,
                         !.y = nodes[i].depth * LEVEL_HEIGHT]]

\* layoutNodes: the nodes of one depth are placed left to right in list
\* order; x of the code is -totalWidth / 2 plus the widths and gaps of the
\* nodes before, and node.x = x + node.width / 2.
layoutNodes(nodes) ==
  [i \in 1..Len(nodes) |->
     LET level == {j \in 1..Len(nodes) : nodes[j].depth = nodes[i].depth}
         totalWidth == sumWidths(nodes, level, -NODE_SPACING)
         x == sumWidths(nodes, {j \in level : j < i}, 0)
     IN [nodes[i] EXCEPT !.x2 = 2 * x - totalWidth + nodes[i].width,
                         !.y = nodes[i].depth * LEVEL_HEIGHT]]

(***************************************************************************)
(* Actions.  `last' records the operation of the latest step and its       *)
(* arguments; `timers' is the queue of pending setTimeout callbacks of     *)
(* handleParse, each with the XML text (an index of XmlInputs) it closed   *)
(* over.  last.was remembers one fact about the state the operation was    *)
(* applied to: the length of the path that startDiagramFrom or             *)
(* navigateToIndex replaced, whether the identifier given to               *)
(* toggleDiagramNode was expanded, the size of the expanded set that       *)
(* resetDiagram collapsed or setMetadata emptied.                          *)
(***************************************************************************)
OpWas(op, ent, name, num, was) ==
  [op |-> op, ent |-> ent, name |-> name, num |-> num, was |-> was]

Op(op, ent, name, num) == OpWas(op, ent, name, num, 0)

StoreDocs == {1, 2}

NamesOf(d) == {EntitiesOf(d)[i].name : i \in 1..Len(EntitiesOf(d))}
              \cup {ComplexTypesOf(d)[i].name : i \in 1..Len(ComplexTypesOf(d))}
ComplexNamesOf(d) == {ComplexTypesOf(d)[i].name : i \in 1..Len(ComplexTypesOf(d))}
NamespacesOf(d) == {EntitiesOf(d)[i].namespace : i \in 1..Len(EntitiesOf(d))}

Idle == UNCHANGED <<g, pc, listeners, unsubscribed, inflight, issued>>

\* Whether a store method returns before it replaces the state and
\* notifies.
returnsEarly(op, s, name, num) ==
  CASE op = "selectFromDiagram" ->
         s.metadata = NoMetadata \/ findEntity(s.metadata, name) = 0
    [] op = "navigateInto" ->
         s.metadata = NoMetadata \/ findComplexType(s.metadata, name) = 0
    [] op = "navigateBack" -> Len(s.navigationPath) = 0
    [] op = "navigateToIndex" -> num < -1
    [] OTHER -> FALSE

\* The notification rounds of a step that makes one store call.
StoreCall ==
  calls' = IF returnsEarly(last'.op, state, last'.name, last'.num) THEN <<>>
           ELSE <<notify(listeners, state')>>

\* The notification rounds of a step that makes the store calls whose
\* resulting states are given.
StoreCalls(states) ==
  calls' = [k \in 1..Len(states) |-> notify(listeners, states[k])]

SetMetadata(d) ==
  /\ state' = setMetadata(state, d)
  /\ last' = OpWas("setMetadata", NoEntity, "", d, Cardinality(state.diagramExpandedNodes))
  /\ StoreCall /\ UNCHANGED timers /\ Idle

SelectEntity(e) ==
  /\ state' = selectEntity(state, e)
  /\ last' = Op("selectEntity", e, "", 0)
  /\ StoreCall /\ UNCHANGED timers /\ Idle

StartDiagramFrom(e) ==
  /\ state' = startDiagramFrom(state, e)
  /\ last' = OpWas("startDiagramFrom", e, "", 0, Len(state.navigationPath))
  /\ StoreCall /\ UNCHANGED timers /\ Idle

ToggleDiagramNode(name) ==
  /\ state' = toggleDiagramNode(state, name)
  /\ last' = OpWas("toggleDiagramNode", NoEntity, name, 0,
                  IF name \in state.diagramExpandedNodes THEN 1 ELSE 0)
  /\ StoreCall /\ UNCHANGED timers /\ Idle

SelectFromDiagram(name) ==
  /\ state' = selectFromDiagram(state, name)
  /\ last' = Op("selectFromDiagram", NoEntity, name, 0)
  /\ StoreCall /\ UNCHANGED timers /\ Idle

ResetDiagram ==
  /\ state' = resetDiagram(state)
  /\ last' = OpWas("resetDiagram", NoEntity, "", 0, Cardinality(state.diagramExpandedNodes))
  /\ StoreCall /\ UNCHANGED timers /\ Idle

SetError(e) ==
  /\ state' = setError(state, e)
  /\ last' = Op("setError", NoEntity, e, 0)
  /\ StoreCall /\ UNCHANGED timers /\ Idle

SetLoading(b) ==
  /\ state' = setLoading(state, b)
  /\ last' = Op("setLoading", NoEntity, "", IF b THEN 1 ELSE 0)
  /\ StoreCall /\ UNCHANGED timers /\ Idle

SetSearchQuery(query) ==
  /\ state' = setSearchQuery(state, query)
  /\ last' = Op("setSearchQuery", NoEntity, "", Len(query))
  /\ StoreCall /\ UNCHANGED timers /\ Idle

ToggleNamespaceCollapsed(ns) ==
  /\ state' = toggleNamespaceCollapsed(state, ns)
  /\ last' = Op("toggleNamespaceCollapsed", NoEntity, ns, 0)
  /\ StoreCall /\ UNCHANGED timers /\ Idle

NavigateInto(propertyName, typeName) ==
  /\ Len(state.navigationPath) < MaxPath
  /\ state' = navigateInto(state, propertyName, typeName)
  /\ last' = Op("navigateInto", NoEntity, typeName, 0)
  /\ StoreCall /\ UNCHANGED timers /\ Idle

NavigateBack ==
  /\ state' = navigateBack(state)
  /\ last' = Op("navigateBack", NoEntity, "", 0)
  /\ StoreCall /\ UNCHANGED timers /\ Idle

NavigateToIndex(index) ==
  /\ state' = navigateToIndex(state, index)
  /\ last' = OpWas("navigateToIndex", NoEntity, "", index, Len(state.navigationPath))
  /\ StoreCall /\ UNCHANGED timers /\ Idle

\* Input section: Parse button, file read or fetch response handing an XML
\* text to handleParse.
HandleParse(x) ==
  /\ Len(timers) < MaxPending
  /\ LET r == handleParse(state, XmlInputs[x])
     IN /\ state' = r.state
        /\ timers' = IF r.scheduled THEN Append(timers, x) ELSE timers
  /\ last' = Op("handleParse", NoEntity, "", x)
  /\ StoreCalls(handleParseStates(state, XmlInputs[x]))
  /\ Idle

\* The oldest pending setTimeout callback fires.
HandleParseTimeout ==
  /\ timers # <<>>
  /\ state' = handleParseTimeout(state, XmlInputs[Head(timers)])
  /\ timers' = Tail(timers)
  /\ last' = Op("handleParseTimeout", NoEntity, "", Head(timers))
  /\ StoreCalls(handleParseTimeoutStates(state, XmlInputs[Head(timers)]))
  /\ Idle

\* store.subscribe(listener).
Subscribe(l) ==
  /\ listeners' = subscribe(listeners, l)
  /\ unsubscribed' = unsubscribed \ {l}
  /\ calls' = <<>>
  /\ last' = Op("subscribe", NoEntity, "", l)
  /\ UNCHANGED <<state, timers, g, pc, inflight, issued>>

\* A call of the function that subscribe(l) returned.
Unsubscribe(l) ==
  /\ \E i \in 1..Len(listeners) : listeners[i] = l
  /\ listeners' = unsubscribe(listeners, l)
  /\ unsubscribed' = unsubscribed \cup {l}
  /\ calls' = <<>>
  /\ last' = Op("unsubscribe", NoEntity, "", l)
  /\ UNCHANGED <<state, timers, g, pc, inflight, issued>>

\* #clear-metadata click.
ClearMetadata ==
  /\ state.metadata # NoMetadata
  /\ state' = setMetadata(state, NoMetadata)
  /\ last' = Op("clearMetadata", NoEntity, "", 0)
  /\ StoreCall /\ UNCHANGED timers /\ Idle

\* #dismiss-error click.
DismissError ==
  /\ state.error # NoError
  /\ state' = setError(state, NoError)
  /\ last' = Op("dismissError", NoEntity, "", 0)
  /\ StoreCall /\ UNCHANGED timers /\ Idle

UnknownName == "External"
\* A name of DocSmall1 only: no entity of DocSmall2 has it.
StaleName == "A"
\* A complex type of DocSmall1 only.
StaleType == "c_X"
DrillProperty == "Items"
SearchQueries == {<<>>, <<"g", "u", "i", "d">>}

(***************************************************************************)
(* Spec: the store under any caller of its transitions.  Entities passed   *)
(* in are entities of the loaded document, identifiers are names of the    *)
(* loaded document or a name that resolves to nothing.  setLoading and     *)
(* setSearchQuery touch no field the other transitions read; they run      *)
(* under ObserverSpec and LoadSpec.                                        *)
(***************************************************************************)
Init ==
  /\ state = InitialState
  /\ timers = <<>>
  /\ last = Op("init", NoEntity, "", 0)
  /\ g = NoGraph
  /\ pc = "idle"
  /\ listeners = <<>>
  /\ unsubscribed = {}
  /\ calls = <<>>
  /\ inflight = [fetch |-> 0, text |-> 0, read |-> 0]
  /\ issued = 0

Next ==
  \/ \E d \in StoreDocs \cup {NoMetadata} : SetMetadata(d)
  \/ \E e \in EntityRefs(state.metadata) \cup {NoEntity} : SelectEntity(e)
  \/ \E e \in EntityRefs(state.metadata) : StartDiagramFrom(e)
  \/ \E n \in NamesOf(state.metadata) : ToggleDiagramNode(n)
  \/ \E n \in NamesOf(state.metadata) \cup {UnknownName, StaleName} : SelectFromDiagram(n)
  \/ ResetDiagram
  \/ \E e \in {NoError, MsgProvideXml} : SetError(e)
  \/ \E ns \in NamespacesOf(state.metadata) : ToggleNamespaceCollapsed(ns)
  \/ \E t \in ComplexNamesOf(state.metadata) \cup {UnknownName, StaleType} :
       NavigateInto(DrillProperty, t)
  \/ NavigateBack
  \/ \E i \in -2..MaxPath : NavigateToIndex(i)

Spec == Init /\ [][Next]_vars

(***************************************************************************)
(* ViewSpec: the store called as its methods allow.  selectEntity takes    *)
(* any entity, of the loaded document or not, also while no document is    *)
(* loaded; the methods that write the selection and the navigation path    *)
(* follow.                                                                 *)
(***************************************************************************)
ViewNext ==
  \/ \E d \in StoreDocs \cup {NoMetadata} : SetMetadata(d)
  \/ \E e \in UNION {EntityRefs(d) : d \in StoreDocs} \cup {NoEntity} : SelectEntity(e)
  \/ \E n \in NamesOf(state.metadata) \cup {UnknownName, StaleName} : SelectFromDiagram(n)
  \/ \E t \in ComplexNamesOf(state.metadata) \cup {UnknownName, StaleType} :
       NavigateInto(DrillProperty, t)
  \/ NavigateBack

ViewSpec == Init /\ [][ViewNext]_vars

(***************************************************************************)
(* LoadSpec: load attempts through handleParse, with enough of the view    *)
(* transitions to have view state when an attempt completes.               *)
(***************************************************************************)
LoadNext ==
  \/ \E x \in 1..Len(XmlInputs) : HandleParse(x)
  \/ HandleParseTimeout
  \/ ClearMetadata
  \/ DismissError
  \/ \E e \in EntityRefs(state.metadata) : StartDiagramFrom(e)
  \/ \E t \in ComplexNamesOf(state.metadata) : NavigateInto(DrillProperty, t)
  \/ \E ns \in NamespacesOf(state.metadata) : ToggleNamespaceCollapsed(ns)
  \/ \E q \in SearchQueries : SetSearchQuery(q)

LoadSpec == Init /\ [][LoadNext]_vars

(***************************************************************************)
(* ObserverSpec: the store with observers that subscribe and unsubscribe   *)
(* between transitions.  An observer is a render function that reads the   *)
(* state; no observer of the repository calls the store or changes the     *)
(* subscriptions while it is being notified.                               *)
(***************************************************************************)
ListenerIds == 1..MaxListeners

\* A blank text, a malformed text and a valid document.
ObserverXml == {1, 2, 7}

ObserverNext ==
  \/ \E l \in ListenerIds : Subscribe(l)
  \/ \E l \in ListenerIds : Unsubscribe(l)
  \/ \E x \in ObserverXml : HandleParse(x)
  \/ HandleParseTimeout
  \/ DismissError
  \/ \E b \in BOOLEAN : SetLoading(b)
  \/ \E n \in NamesOf(state.metadata) \cup {UnknownName} : SelectFromDiagram(n)

ObserverSpec == Init /\ [][ObserverNext]_vars

(***************************************************************************)
(* AcquireSpec: load attempts from the three tabs of the input section.    *)
(* `inflight' counts the fetches, the response texts and the file reads    *)
(* that have not settled, `timers' holds the texts of the pending deferred *)
(* parses, `issued' counts the attempts made so far.                       *)
(***************************************************************************)
MaxAttempts == 2

\* A blank text, a malformed text and two valid documents.
AcquireXml == {1, 2, 6, 7}

\* #parse-btn click with a text in the textarea.
ParseClick(x) ==
  /\ issued < MaxAttempts
  /\ state' = parsed(state, x).state
  /\ timers' = IF parsed(state, x).scheduled THEN Append(timers, x) ELSE timers
  /\ issued' = issued + 1
  /\ last' = Op("parseClick", NoEntity, "", x)
  /\ StoreCalls(parsed(state, x).states)
  /\ UNCHANGED <<inflight, g, pc, listeners, unsubscribed>>

\* #fetch-btn click.
FetchClick(blankUrl) ==
  /\ issued < MaxAttempts
  /\ state' = fetchClick(state, blankUrl).state
  /\ inflight' = IF fetchClick(state, blankUrl).scheduled
                   THEN [inflight EXCEPT !.fetch = @ + 1] ELSE inflight
  /\ issued' = issued + 1
  /\ last' = Op("fetchClick", NoEntity, IF blankUrl THEN "blank" ELSE "url", 0)
  /\ StoreCalls(fetchClick(state, blankUrl).states)
  /\ UNCHANGED <<timers, g, pc, listeners, unsubscribed>>

\* A pending fetch settles: the handler resumes after `await fetch(url)'.
FetchSettled(response) ==
  /\ inflight.fetch > 0
  /\ state' = fetchSettled(state, response).state
  /\ inflight' = [inflight EXCEPT !.fetch = @ - 1,
                                  !.text = IF fetchSettled(state, response).scheduled
                                             THEN @ + 1 ELSE @]
  /\ last' = Op("fetchSettled", NoEntity, response.kind, 0)
  /\ StoreCalls(fetchSettled(state, response).states)
  /\ UNCHANGED <<timers, issued, g, pc, listeners, unsubscribed>>

\* An awaited response text settles: the handler resumes after
\* `await response.text()'.
TextSettled(result) ==
  /\ inflight.text > 0
  /\ state' = textSettled(state, result).state
  /\ timers' = IF textSettled(state, result).scheduled
                 THEN Append(timers, result.text) ELSE timers
  /\ inflight' = [inflight EXCEPT !.text = @ - 1]
  /\ last' = Op("textSettled", NoEntity, result.kind, result.text)
  /\ StoreCalls(textSettled(state, result).states)
  /\ UNCHANGED <<issued, g, pc, listeners, unsubscribed>>

\* A file is dropped on the drop zone or chosen in the file input.
ReadFile ==
  /\ issued < MaxAttempts
  /\ inflight' = [inflight EXCEPT !.read = @ + 1]
  /\ issued' = issued + 1
  /\ last' = Op("readFile", NoEntity, "", 0)
  /\ calls' = <<>>
  /\ UNCHANGED <<state, timers, g, pc, listeners, unsubscribed>>

\* A pending file read settles.
ReadSettled(result) ==
  /\ inflight.read > 0
  /\ state' = readSettled(state, result).state
  /\ timers' = IF readSettled(state, result).scheduled
                 THEN Append(timers, result.text) ELSE timers
  /\ inflight' = [inflight EXCEPT !.read = @ - 1]
  /\ last' = Op("readSettled", NoEntity, result.kind, result.text)
  /\ StoreCalls(readSettled(state, result).states)
  /\ UNCHANGED <<issued, g, pc, listeners, unsubscribed>>

\* The ways a fetch settles: the promise rejects, the response is not ok,
\* the response is ok.
FetchOutcomes == {[kind |-> k, text |-> 0] : k \in {"rejected", "notOk", "ok"}}

\* The ways a response text or a file read settles: one of the given
\* failures, or a text arrives.
SettledWith(failures) ==
  {[kind |-> k, text |-> 0] : k \in failures}
    \cup {[kind |-> "text", text |-> x] : x \in AcquireXml}

AcquireNext ==
  \/ \E x \in AcquireXml : ParseClick(x)
  \/ \E blankUrl \in BOOLEAN : FetchClick(blankUrl)
  \/ \E response \in FetchOutcomes : FetchSettled(response)
  \/ \E result \in SettledWith({"error"}) : TextSettled(result)
  \/ ReadFile
  \/ \E result \in SettledWith({"error"}) : ReadSettled(result)
  \/ HandleParseTimeout
  \/ DismissError
  \/ \E e \in EntityRefs(state.metadata) : StartDiagramFrom(e)

AcquireSpec == Init /\ [][AcquireNext]_vars

(***************************************************************************)
(* AcquireLive: AcquireSpec when every fetch, response text and file read  *)
(* settles and every timer fires.                                          *)
(***************************************************************************)
AcquireLive ==
  /\ AcquireSpec
  /\ WF_vars(\E response \in FetchOutcomes : FetchSettled(response))
  /\ WF_vars(\E result \in SettledWith({"error"}) : TextSettled(result))
  /\ WF_vars(\E result \in SettledWith({"error"}) : ReadSettled(result))
  /\ WF_vars(HandleParseTimeout)

(***************************************************************************)
(* OverlapSpec: URL fetches that may overlap.  `g.pending' holds the       *)
(* fetches in flight, each with the number of its attempt and the way it   *)
(* will settle; `g.reading' holds the attempts whose response has arrived  *)
(* and whose text is awaited; `g.latest' is the most recently issued       *)
(* attempt; `g.overlap' says that an attempt was issued before an earlier  *)
(* one had completed (its fetch in flight, its text awaited or its         *)
(* deferred parse pending).                                                *)
(***************************************************************************)
\* The ways the fetches of this specification settle: a rejected promise,
\* a malformed text and two valid documents.
OverlapResponses ==
  {[kind |-> "rejected", text |-> 0]} \cup {[kind |-> "text", text |-> x] : x \in {2, 6, 7}}

\* #fetch-btn click with a non-blank URL whose request will settle with
\* `response'.
FetchIssued(response) ==
  /\ issued < MaxAttempts
  /\ state' = fetchClick(state, FALSE).state
  /\ issued' = issued + 1
  /\ g' = [pending |-> g.pending \cup {[id |-> issued + 1, response |-> response]},
           reading |-> g.reading,
           latest |-> [id |-> issued + 1, response |-> response],
           overlap |-> g.overlap \/ g.pending # {} \/ g.reading # {} \/ timers # <<>>]
  /\ last' = Op("fetchClick", NoEntity, "url", issued + 1)
  /\ StoreCalls(fetchClick(state, FALSE).states)
  /\ UNCHANGED <<timers, inflight, pc, listeners, unsubscribed>>

\* The fetch of one attempt settles, whatever the order of issue: the
\* promise rejects, or the response is ok and its text is awaited.
FetchArrived(a) ==
  LET outcome == [kind |-> IF a.response.kind = "text" THEN "ok" ELSE a.response.kind,
                  text |-> 0]
  IN /\ a \in g.pending
     /\ state' = fetchSettled(state, outcome).state
     /\ g' = [g EXCEPT !.pending = @ \ {a},
                       !.reading = IF fetchSettled(state, outcome).scheduled
                                     THEN @ \cup {a} ELSE @]
     /\ last' = Op("fetchSettled", NoEntity, outcome.kind, a.id)
     /\ StoreCalls(fetchSettled(state, outcome).states)
     /\ UNCHANGED <<timers, issued, inflight, pc, listeners, unsubscribed>>

\* The awaited text of one attempt arrives and is handed to handleParse.
TextArrived(a) ==
  /\ a \in g.reading
  /\ state' = textSettled(state, a.response).state
  /\ timers' = IF textSettled(state, a.response).scheduled
                 THEN Append(timers, a.response.text) ELSE timers
  /\ g' = [g EXCEPT !.reading = @ \ {a}]
  /\ last' = Op("textSettled", NoEntity, a.response.kind, a.id)
  /\ StoreCalls(textSettled(state, a.response).states)
  /\ UNCHANGED <<issued, inflight, pc, listeners, unsubscribed>>

OverlapInit ==
  /\ state = InitialState
  /\ timers = <<>>
  /\ last = Op("init", NoEntity, "", 0)
  /\ g = [pending |-> {}, reading |-> {},
          latest |-> [id |-> 0, response |-> [kind |-> "none", text |-> 0]],
          overlap |-> FALSE]
  /\ pc = "idle"
  /\ listeners = <<>>
  /\ unsubscribed = {}
  /\ calls = <<>>
  /\ inflight = [fetch |-> 0, text |-> 0, read |-> 0]
  /\ issued = 0

OverlapNext ==
  \/ \E response \in OverlapResponses : FetchIssued(response)
  \/ \E id \in 1..MaxAttempts : \E response \in OverlapResponses :
       FetchArrived([id |-> id, response |-> response])
  \/ \E id \in 1..MaxAttempts : \E response \in OverlapResponses :
       TextArrived([id |-> id, response |-> response])
  \/ HandleParseTimeout

OverlapSpec == OverlapInit /\ [][OverlapNext]_vars

(***************************************************************************)
(* SearchSpec: the sidebar's search box.  `g' holds the text of the input  *)
(* element and the argument of the pending debounce timer (NoTimer when    *)
(* none is pending); `pc' is the user's last gesture on the box: "typed"   *)
(* after an input event, "cleared" after a click on #clear-search.         *)
(***************************************************************************)
NoTimer == <<"<none>">>

\* The texts the user leaves in the search input.
SearchTexts == {<<>>, <<"a">>, <<"a", "b">>, <<"i", "d">>, <<"g", "u", "i", "d">>}

\* The function debounce returns: clearTimeout(timeoutId), then
\* timeoutId = setTimeout(() => fn(...args), delay).  One timer is pending
\* afterwards, with the arguments of this call.
debounce(timeoutId, args) == args

\* The input listener of #entity-search.
SearchInput(value) ==
  /\ g' = [value |-> value, timeoutId |-> debounce(g.timeoutId, value)]
  /\ pc' = "typed"
  /\ last' = Op("searchInput", NoEntity, "", Len(value))
  /\ calls' = <<>>
  /\ UNCHANGED <<state, timers, listeners, unsubscribed, inflight, issued>>

\* The debounce timer fires: fn(...args) is store.setSearchQuery(value).
DebounceFires ==
  /\ g.timeoutId # NoTimer
  /\ state' = setSearchQuery(state, g.timeoutId)
  /\ g' = [g EXCEPT !.timeoutId = NoTimer]
  /\ last' = Op("setSearchQuery", NoEntity, "", Len(g.timeoutId))
  /\ StoreCall
  /\ UNCHANGED <<timers, pc, listeners, unsubscribed, inflight, issued>>

\* The click listener of #clear-search: the input is emptied and
\* store.setSearchQuery('') is called; the debounce timer is not touched.
ClearSearch ==
  /\ g' = [g EXCEPT !.value = <<>>]
  /\ state' = setSearchQuery(state, <<>>)
  /\ pc' = "cleared"
  /\ last' = Op("clearSearch", NoEntity, "", 0)
  /\ StoreCall
  /\ UNCHANGED <<timers, listeners, unsubscribed, inflight, issued>>

SearchInit ==
  /\ state = InitialState
  /\ timers = <<>>
  /\ last = Op("init", NoEntity, "", 0)
  /\ g = [value |-> <<>>, timeoutId |-> NoTimer]
  /\ pc = "idle"
  /\ listeners = <<>>
  /\ unsubscribed = {}
  /\ calls = <<>>
  /\ inflight = [fetch |-> 0, text |-> 0, read |-> 0]
  /\ issued = 0

SearchNext ==
  \/ \E value \in SearchTexts : SearchInput(value)
  \/ DebounceFires
  \/ ClearSearch
  \/ \E d \in StoreDocs \cup {NoMetadata} : SetMetadata(d)

SearchSpec == SearchInit /\ [][SearchNext]_vars

(***************************************************************************)
(* GraphSpec: one call of buildGraph from the diagram's render, on a store *)
(* state with a loaded document and a diagram root.                        *)
(***************************************************************************)
ExpandChoices(d) ==
  CASE d = 4 -> {EName(1), EName(2), "c_Big"}
    [] d = 7 -> {"A", "B", "C", "c_X"}
    [] OTHER -> NamesOf(d)

RootChoices(d) ==
  CASE d = 4 -> {[doc |-> 4, idx |-> i] : i \in 1..3}
    [] d = 7 -> {[doc |-> 7, idx |-> 1]}
    [] OTHER -> EntityRefs(d)

SelectedChoices(d) == {NoEntity, [doc |-> d, idx |-> 2]}

GraphInputs ==
  {[InitialState EXCEPT !.metadata = d, !.diagramRootEntity = r,
                        !.selectedEntity = sel, !.diagramExpandedNodes = ex] :
     d \in DocIds, r \in UNION {RootChoices(dd) : dd \in DocIds},
     sel \in UNION {SelectedChoices(dd) \cup RootChoices(dd) : dd \in DocIds},
     ex \in UNION {SUBSET ExpandChoices(dd) : dd \in DocIds}}

GraphInit ==
  /\ state \in {s \in GraphInputs :
                  /\ s.diagramRootEntity \in RootChoices(s.metadata)
                  /\ s.selectedEntity \in SelectedChoices(s.metadata) \cup {s.diagramRootEntity}
                  /\ s.diagramExpandedNodes \subseteq ExpandChoices(s.metadata)}
  /\ timers = <<>>
  /\ last = Op("render", NoEntity, "", 0)
  /\ g = InitialGraph(state)
  /\ pc = "bfs"
  /\ listeners = <<>>
  /\ unsubscribed = {}
  /\ calls = <<>>
  /\ inflight = [fetch |-> 0, text |-> 0, read |-> 0]
  /\ issued = 0

\* The next queue item names a type that was not visited yet.
VisitNode ==
  /\ pc = "bfs" /\ g.queue # <<>>
  /\ bfsIteration(state, g).nodes # g.nodes
  /\ g' = bfsIteration(state, g)
  /\ UNCHANGED <<state, timers, last, pc, listeners, unsubscribed, calls, inflight, issued>>

\* The next queue item names a visited type: `continue'.
SkipVisited ==
  /\ pc = "bfs" /\ g.queue # <<>>
  /\ bfsIteration(state, g).nodes = g.nodes
  /\ g' = bfsIteration(state, g)
  /\ UNCHANGED <<state, timers, last, pc, listeners, unsubscribed, calls, inflight, issued>>

\* The queue is empty: the link pass runs and buildGraph returns.
BuildLinks ==
  /\ pc = "bfs" /\ g.queue = <<>>
  /\ g' = [g EXCEPT !.links = buildLinks(state, g.nodes, 1, [linkSet |-> {}, links |-> <<>>])]
  /\ pc' = "done"
  /\ UNCHANGED <<state, timers, last, listeners, unsubscribed, calls, inflight, issued>>

GraphNext == VisitNode \/ SkipVisited \/ BuildLinks

GraphSpec == GraphInit /\ [][GraphNext]_vars

(***************************************************************************)
(* FunctionSpec: the pure functions of the repository, each applied once   *)
(* to an input drawn from a bounded set.  `last' names the function, `g'   *)
(* holds the input and, after the call, the result.                        *)
(***************************************************************************)
MaxTypeLen == 3
MaxNodes == 4

\* Three entities as the parser builds them: Ab (Ns) with a Guid key Id, a
\* collection of strings and a navigation to Cd; Cd (Ns) derived from
\* Ns.Base, with a key that is not one of its properties and a property
\* named Guid; Id (Mx) whose name is contained in the name of one of its
\* properties.
SearchEntities ==
  << [name |-> <<"A", "b">>, namespace |-> <<"N", "s">>, fullName |-> <<"N", "s", ".", "A", "b">>,
      properties |->
        <<[name |-> <<"I", "d">>, type |-> <<"E", "d", "m", ".", "G", "u", "i", "d">>],
        [name |-> <<"T", "a", "g", "s">>, type |-> <<"C", "o", "l", "l", "e", "c", "t", "i", "o", "n", "(", "E", "d", "m", ".", "S", "t", "r", "i", "n", "g", ")">>]>>,
      navigationProperties |-> <<[name |-> <<"R", "e", "l">>, targetEntity |-> <<"C", "d">>]>>,
      keyProperties |-> <<<<"I", "d">>>>, baseType |-> <<>>],
     [name |-> <<"C", "d">>, namespace |-> <<"N", "s">>, fullName |-> <<"N", "s", ".", "C", "d">>,
      properties |->
        <<[name |-> <<"G", "u", "i", "d">>, type |-> <<"E", "d", "m", ".", "I", "n", "t", "3", "2">>]>>,
      navigationProperties |-> <<>>,
      keyProperties |-> <<<<"K", "z">>>>, baseType |-> <<"N", "s", ".", "B", "a", "s", "e">>],
     [name |-> <<"I", "d">>, namespace |-> <<"M", "x">>, fullName |-> <<"M", "x", ".", "I", "d">>,
      properties |->
        <<[name |-> <<"W", "i", "d", "t", "h">>, type |-> <<"E", "d", "m", ".", "G", "u", "i", "d">>],
        [name |-> <<"R", "e", "l">>, type |-> <<"M", "x", ".", "E", "d", "m", ".", "U", "n", "i", "t">>]>>,
      navigationProperties |-> <<[name |-> <<"T", "o", "A", "b">>, targetEntity |-> <<"A", "b">>]>>,
      keyProperties |-> <<>>, baseType |-> <<>>] >>

\* Queries: empty, blank, padded, upper case, and texts that occur in one
\* or several fields of the entities, or in none.
Queries ==
  {<<>>,
   <<" ">>,
   <<"i", "d">>,
   <<"I", "D">>,
   <<" ", "i", "d", " ">>,
   <<"g", "u", "i", "d">>,
   <<"s", "t", "r", "i", "n", "g">>,
   <<"c", "o", "l", "l", "e", "c", "t", "i", "o", "n", "(">>,
   <<"r", "e", "l">>,
   <<"c", "d">>,
   <<"n", "s">>,
   <<"s", ".", "a">>,
   <<"k", "z">>,
   <<"b", "a", "s", "e">>,
   <<"m", "x">>,
   <<"z", "z">>,
   <<"e", "d", "m", ".">>,
   <<"a", "b">>,
   <<"t", "o", "a", "b">>,
   <<" ", "R", "e", "l", " ">>,
   <<"i", " ", "d">>,
   <<"u", "n", "i", "t">>,
   <<"t", "a">>}

\* The entity lists: the arrangements of distinct entities of
\* SearchEntities.
EntityLists ==
  LET orders == {s \in UNION {[1..n -> 1..Len(SearchEntities)] : n \in 0..Len(SearchEntities)} :
                   \A a, b \in DOMAIN s : a # b => s[a] # s[b]}
  IN {[k \in DOMAIN s |-> SearchEntities[s[k]]] : s \in orders}

\* An entity without properties.
Bare(namespace, name) ==
  [name |-> name, namespace |-> namespace,
   fullName |-> IF namespace = <<>> THEN name ELSE namespace \o <<".">> \o name,
   properties |-> <<>>, navigationProperties |-> <<>>, keyProperties |-> <<>>,
   baseType |-> <<>>]

\* Entities whose order depends on the grouping: namespaces that differ
\* in the case of a letter, no namespace, the namespace Default, one name
\* in two namespaces, names that differ in case only.
SortEntities ==
  << Bare(<<"M", "a">>, <<"A", "b">>),
     Bare(<<"M", "B">>, <<"E", "2">>),
     Bare(<<"M", "B">>, <<"e", "2">>),
     Bare(<<>>, <<"Z", "z">>),
     Bare(<<"D", "e", "f", "a", "u", "l", "t">>, <<"E", "2">>) >>

MaxSorted == 3

\* The arrangements of at most MaxSorted distinct entities of SortEntities.
SortLists ==
  LET orders == {s \in UNION {[1..n -> 1..Len(SortEntities)] : n \in 0..MaxSorted} :
                   \A a, b \in DOMAIN s : a # b => s[a] # s[b]}
  IN {[k \in DOMAIN s |-> SortEntities[s[k]]] : s \in orders}

\* Names whose order depends on the locale of the host: digits and an
\* underscore, a difference of case only and aa (Danish), ch (Czech), z
\* (Estonian), y (Lithuanian), cs and its doubled form (Hungarian).
LocaleNames ==
  << << <<"E", "2">>, <<"E", "1", "0">>, <<"E", "_", "b">> >>,
     << <<"e", "2">>, <<"A", "a">>, <<"E", "2">> >>,
     << <<"H", "x">>, <<"C", "h">>, <<"C", "z">> >>,
     << <<"Z", "a">>, <<"T", "a">>, <<"U", "a">> >>,
     << <<"I", "c">>, <<"X", "a">>, <<"Y", "b">> >>,
     << <<"C", "z">>, <<"C", "s", "a">>, <<"C", "c", "s">> >> >>

\* The arrangements of at most MaxSorted distinct names of one row of
\* LocaleNames, as entities of one namespace.
LocaleLists ==
  LET orders(row) == {s \in UNION {[1..n -> 1..Len(row)] : n \in 0..MaxSorted} :
                        \A a, b \in DOMAIN s : a # b => s[a] # s[b]}
  IN UNION {{[k \in DOMAIN s |-> Bare(<<"N">>, LocaleNames[r][s[k]])] :
               s \in orders(LocaleNames[r])} : r \in 1..Len(LocaleNames)}

\* The texts of at most n characters over the alphabet.
RECURSIVE Texts(_, _)
Texts(alphabet, n) ==
  IF n = 0 THEN {<<>>}
  ELSE Texts(alphabet, n - 1)
         \cup {Append(s, c) : s \in Texts(alphabet, n - 1), c \in alphabet}

\* Type attributes: a body, the body in 'Collection(' and ')', and the body
\* after an unclosed 'Collection('.
NavTypes ==
  LET bodies == Texts({"N", "B", ".", ")"}, MaxTypeLen)
  IN bodies \cup {CollectionOpen \o b \o <<")">> : b \in bodies}
            \cup {CollectionOpen \o b : b \in bodies}

\* Diagram nodes before layout: a depth and a display name of a length
\* that gives the minimum width, an even width or an odd width.
NodeChoices ==
  {[depth |-> d, width |-> calculateNodeWidth([i \in 1..n |-> "x"]), x2 |-> 0, y |-> 0] :
     d \in {0, 2}, n \in {1, 6, 9}}

RECURSIVE NodeLists(_)
NodeLists(n) ==
  IF n = 0 THEN {<<>>}
  ELSE NodeLists(n - 1) \cup {Append(s, node) : s \in NodeLists(n - 1), node \in NodeChoices}

Call(input) == [input |-> input, result |-> <<>>]

FunctionInit ==
  /\ state = InitialState
  /\ timers = <<>>
  /\ pc = "call"
  /\ listeners = <<>>
  /\ unsubscribed = {}
  /\ calls = <<>>
  /\ inflight = [fetch |-> 0, text |-> 0, read |-> 0]
  /\ issued = 0
  /\ \/ /\ last = Op("getFilteredEntities", NoEntity, "", 0)
        /\ g \in {Call([metadata |-> [loaded |-> loaded, allEntities |-> es],
                        searchQuery |-> query]) :
                    loaded \in BOOLEAN, es \in EntityLists, query \in Queries}
        /\ g.input.metadata.loaded \/ g.input.metadata.allEntities = <<>>
     \/ /\ last = Op("getMatchHint", NoEntity, "", 0)
        /\ g \in {Call([entity |-> SearchEntities[i], query |-> query]) :
                    i \in 1..3, query \in Queries}
     \/ /\ last = Op("extractRelationships", NoEntity, "", 0)
        /\ g \in {Call(d) : d \in DocIds}
     \/ /\ last = Op("renderNamespaceList", NoEntity, "", 0)
        /\ g \in {Call([metadata |-> [loaded |-> TRUE, allEntities |-> es],
                        searchQuery |-> query]) :
                    es \in EntityLists, query \in Queries}
     \/ /\ last = Op("renderNamespaceList", NoEntity, "", 0)
        /\ g \in {Call([metadata |-> [loaded |-> TRUE, allEntities |-> es],
                        searchQuery |-> query]) :
                    es \in SortLists, query \in {<<>>, <<"m", "b">>}}
     \/ /\ last = Op("renderNamespaceList", NoEntity, "", 0)
        /\ g \in {Call([metadata |-> [loaded |-> TRUE, allEntities |-> es],
                        searchQuery |-> <<>>]) :
                    es \in LocaleLists}
     \/ /\ last = Op("layoutNodes", NoEntity, "", 0)
        /\ g \in {Call(nodes) : nodes \in NodeLists(MaxNodes)}
     \/ /\ last = Op("parseNavigationProperty", NoEntity, "", 0)
        /\ g \in {Call(type) : type \in NavTypes}

Returns(result) ==
  /\ pc = "call"
  /\ g' = [g EXCEPT !.result = result]
  /\ pc' = "return"
  /\ UNCHANGED <<state, timers, last, listeners, unsubscribed, calls, inflight, issued>>

GetFilteredEntities ==
  last.op = "getFilteredEntities" /\ Returns(getFilteredEntities(g.input))

GetMatchHint ==
  last.op = "getMatchHint" /\ Returns(getMatchHint(g.input.entity, g.input.query))

RenderNamespaceList ==
  /\ last.op = "renderNamespaceList"
  /\ \E host \in Hosts({getFilteredEntities(g.input)[k].name :
                           k \in 1..Len(getFilteredEntities(g.input))}) :
       Returns(renderNamespaceList(g.input, host))

ExtractRelationships ==
  /\ last.op = "extractRelationships"
  /\ Returns(extractRelationships(Docs[g.input], Len(Docs[g.input].allEntities)))

LayoutNodes ==
  last.op = "layoutNodes" /\ Returns(layoutNodes(g.input))

ParseNavigationProperty ==
  last.op = "parseNavigationProperty" /\ Returns(parseNavigationProperty(g.input))

FunctionNext ==
  \/ GetFilteredEntities
  \/ GetMatchHint
  \/ RenderNamespaceList
  \/ ExtractRelationships
  \/ LayoutNodes
  \/ ParseNavigationProperty

FunctionSpec == FunctionInit /\ [][FunctionNext]_vars

(***************************************************************************)
(* Properties.                                                             *)
(***************************************************************************)
RootName == Ent(state.diagramRootEntity).name

NodeIdx == 1..Len(g.nodes)

LinkIdx == 1..Len(g.links)

\* The documents the parser rejects, in the words of its contract.
Rejected(x) ==
  \/ ~x.wellFormed
  \/ x.root \notin {<<"E", "d", "m", "x">>, <<"E", "D", "M", "X">>}
  \/ ~x.dataServices

\* C1: a load attempt whose parse fails leaves the store's metadata as it
\* was, neither replaced nor cleared, and publishes a non-null error: the
\* dispatch of the attempt does not touch metadata, and the deferred parse
\* of a rejected document keeps metadata and sets error.
C1_FailedParseKeepsMetadata ==
  [][/\ last'.op = "handleParse" => state'.metadata = state.metadata
     /\ (last'.op = "handleParseTimeout" /\ Rejected(XmlInputs[last'.num]))
          => (state'.metadata = state.metadata /\ state'.error # NoError)]_vars

\* C1 witness: the deferred parse of <Foo/> has failed while a document
\* was loaded.
C1_Witness ==
  /\ last.op = "handleParseTimeout"
  /\ XmlInputs[last.num].root = <<"F", "o", "o">>
  /\ state.metadata # NoMetadata
  /\ state.error = MsgRootMustBeEdmx

\* C2: setMetadata replaces metadata with the given document and leaves no
\* selection, no error, no collapsed namespace, no diagram root and no
\* expanded node.
C2_SetMetadataResets ==
  last.op = "setMetadata" =>
    /\ state.metadata = last.num
    /\ state.selectedEntity = NoEntity
    /\ state.error = NoError
    /\ state.collapsedNamespaces = {}
    /\ state.diagramRootEntity = NoEntity
    /\ state.diagramExpandedNodes = {}

\* C2 witness: a document was loaded over a state that had expanded nodes
\* and a drill-down (hence a document and view state) before.
C2_Witness ==
  /\ last.op = "setMetadata"
  /\ last.was >= 2
  /\ state.metadata = 2
  /\ state.navigationPath # <<>>

\* C3: immediately after a successful load the navigation path is empty.
C3_LoadClearsNavigationPath ==
  (last.op = "handleParseTimeout" /\ ~Rejected(XmlInputs[last.num]))
    => state.navigationPath = <<>>

\* C4: in one graph build the root is emitted first, with depth 0 and
\* isRoot, the finished node list contains it, and no identifier is emitted
\* twice.
C4_RootOnceNoDuplicates ==
  /\ \A i, j \in NodeIdx : g.nodes[i].id = g.nodes[j].id => i = j
  /\ \A i \in NodeIdx : g.nodes[i].id = RootName =>
        (i = 1 /\ g.nodes[i].depth = 0 /\ g.nodes[i].isRoot)
  /\ pc = "done" => \E i \in NodeIdx : g.nodes[i].id = RootName

\* C4 witness: a finished build over the cyclic document from A with B
\* expanded (A -> B twice, B -> A): A and B are both emitted.
C4_Witness ==
  /\ pc = "done"
  /\ state.metadata = 3
  /\ RootName = "A"
  /\ "B" \in state.diagramExpandedNodes
  /\ \E i, j \in NodeIdx : g.nodes[i].id = "A" /\ g.nodes[j].id = "B"

\* The type names of the loaded document the build has not visited.
Unvisited == NamesOf(state.metadata) \ g.visited

\* C5: every graph build terminates: each iteration of the BFS loop either
\* visits a type not visited before or shortens the queue without visiting
\* anything, so the pair (number of unvisited types, queue length)
\* decreases in the lexicographic order at every iteration, and the loop is
\* left for the return as soon as the queue is empty.
C5_BuildTerminates ==
  [][pc = "bfs" =>
       IF g.queue = <<>> THEN pc' = "done"
       ELSE /\ pc' = "bfs"
            /\ g'.visited \subseteq NamesOf(state.metadata)
            /\ \/ Cardinality(Unvisited') < Cardinality(Unvisited)
               \/ /\ Cardinality(Unvisited') = Cardinality(Unvisited)
                  /\ Len(g'.queue) < Len(g.queue)]_vars

\* C5 witness: a build over the cyclic document with every type expanded
\* (partner cycle, self reference, recursive complex-type collections) has
\* returned.
C5_Witness ==
  /\ pc = "done"
  /\ g.queue = <<>>
  /\ state.metadata = 3
  /\ state.diagramExpandedNodes = NamesOf(3)
  /\ Len(g.nodes) = 5

\* C6: the children pushed from one node never exceed its fan-out cap,
\* pooled over navigation targets and nested collections: 15 for the root,
\* 8 for another entity, 6 for a complex type; so at most 15 nodes have
\* depth 1.
C6_FanOutCap ==
  /\ \A i \in NodeIdx :
       g.childCounts[i] <= (IF g.nodes[i].isRoot THEN 15
                            ELSE IF g.nodes[i].kind = "entity" THEN 8 ELSE 6)
  /\ Cardinality({i \in NodeIdx : g.nodes[i].depth = 1}) <= 15

\* C6 witness: a finished build in which the root, a non-root entity and a
\* complex type each had more candidates than their cap and were truncated
\* at 15, 8 and 6.
C6_Witness ==
  /\ pc = "done"
  /\ \E i \in NodeIdx :
       /\ g.nodes[i].isRoot /\ g.childCounts[i] = 15
       /\ g.nodes[i].relationshipCount + g.nodes[i].collectionCount > 15
  /\ \E i \in NodeIdx :
       /\ ~g.nodes[i].isRoot /\ g.nodes[i].kind = "entity" /\ g.childCounts[i] = 8
       /\ g.nodes[i].relationshipCount + g.nodes[i].collectionCount > 8
  /\ \E i \in NodeIdx :
       /\ g.nodes[i].kind = "complex" /\ g.childCounts[i] = 6
       /\ g.nodes[i].relationshipCount + g.nodes[i].collectionCount > 6
  /\ Cardinality({i \in NodeIdx : g.nodes[i].depth = 1}) = 15

\* A node that is neither the root nor in expandedNodeIds.
IsLeaf(i) == g.nodes[i].id # RootName /\ g.nodes[i].id \notin state.diagramExpandedNodes

\* C7: a node that is neither the root nor expanded pushes no children and
\* is the source of no link.
C7_LeafHasNoOutgoing ==
  \A i \in NodeIdx : IsLeaf(i) =>
    /\ g.childCounts[i] = 0
    /\ \A l \in LinkIdx : g.links[l].source # i

\* The names a type refers to through navigation properties and nested
\* collections.
TargetsOf(node) ==
  LET cands == linkCandidates(state, node) IN {cands[k].target : k \in 1..Len(cands)}

\* C7 witness: a finished build with a leaf that refers to another emitted
\* node to which nothing links it.
C7_Witness ==
  /\ pc = "done"
  /\ \E i, j \in NodeIdx :
       /\ i # j /\ IsLeaf(i)
       /\ g.nodes[j].id \in TargetsOf(g.nodes[i])
       /\ \A l \in LinkIdx : {g.links[l].source, g.links[l].target} # {i, j}

\* C8: at most one link joins any unordered pair of identifiers, and every
\* link joins two distinct emitted nodes.
C8_OneLinkPerPair ==
  /\ \A l \in LinkIdx :
       /\ g.links[l].source \in NodeIdx /\ g.links[l].target \in NodeIdx
       /\ g.nodes[g.links[l].source].id # g.nodes[g.links[l].target].id
  /\ \A l, m \in LinkIdx :
       {g.nodes[g.links[l].source].id, g.nodes[g.links[l].target].id}
         = {g.nodes[g.links[m].source].id, g.nodes[g.links[m].target].id} => l = m

\* The navigation properties of a node's type that target a given name.
NavsTo(node, name) ==
  LET cands == linkCandidates(state, node) IN {k \in 1..Len(cands) : cands[k].target = name}

\* C8 witness: a finished build with two expanded nodes joined by two
\* properties one way and one the other way, and one link.
C8_Witness ==
  /\ pc = "done"
  /\ \E i, j \in NodeIdx :
       /\ i # j /\ linksFrom(g.nodes[i]) /\ linksFrom(g.nodes[j])
       /\ Cardinality(NavsTo(g.nodes[i], g.nodes[j].id)) >= 2
       /\ Cardinality(NavsTo(g.nodes[j], g.nodes[i].id)) >= 1
       /\ Cardinality({l \in LinkIdx : {g.links[l].source, g.links[l].target} = {i, j}}) = 1

\* C9: selectEntity(e) selects e, makes e the diagram root when there was
\* none and keeps the root otherwise, makes {e.name} the expanded set when
\* it was empty and keeps it otherwise, and empties the navigation path.
C9_SelectEntity ==
  [][(last'.op = "selectEntity" /\ last'.ent # NoEntity) =>
       /\ state'.selectedEntity = last'.ent
       /\ state'.diagramRootEntity =
            (IF state.diagramRootEntity = NoEntity THEN last'.ent ELSE state.diagramRootEntity)
       /\ state'.diagramExpandedNodes =
            (IF state.diagramExpandedNodes = {} THEN {Ent(last'.ent).name}
             ELSE state.diagramExpandedNodes)
       /\ state'.navigationPath = <<>>]_vars

\* C9 witness: an entity was selected while another entity was the root
\* and the expanded set did not hold the selected name.
C9_Witness ==
  /\ last.op = "selectEntity"
  /\ last.ent # NoEntity
  /\ state.selectedEntity = last.ent
  /\ state.diagramRootEntity \notin {NoEntity, last.ent}
  /\ state.diagramExpandedNodes # {}
  /\ Ent(last.ent).name \notin state.diagramExpandedNodes

\* C10: after any transition that changes selectedEntity to a different
\* entity, the navigation path is empty and the current view is that
\* entity.
C10_NewSelectionExitsDrillDown ==
  [][(state'.selectedEntity # state.selectedEntity /\ state'.selectedEntity # NoEntity) =>
       /\ state'.navigationPath = <<>>
       /\ getCurrentViewType(state') =
            [kind |-> "entity", doc |-> state'.selectedEntity.doc,
             idx |-> state'.selectedEntity.idx]]_vars

\* C11: selectFromDiagram(name) leaves the state unchanged when no metadata
\* is loaded or no entity of allEntities has that name; otherwise it
\* selects an entity of the loaded document with that name and adds name to
\* the expanded set, keeping every identifier already in it.
C11_SelectFromDiagram ==
  [][last'.op = "selectFromDiagram" =>
       LET name == last'.name
           es == EntitiesOf(state.metadata)
       IN IF state.metadata = NoMetadata \/ ~ \E i \in 1..Len(es) : es[i].name = name
            THEN state' = state
            ELSE /\ state'.selectedEntity \in EntityRefs(state.metadata)
                 /\ Ent(state'.selectedEntity).name = name
                 /\ state'.diagramExpandedNodes = state.diagramExpandedNodes \cup {name}]_vars

\* C11 witness: a node other than the root was selected from the diagram
\* while other identifiers were expanded.
C11_Witness ==
  /\ last.op = "selectFromDiagram"
  /\ state.selectedEntity # NoEntity
  /\ Ent(state.selectedEntity).name = last.name
  /\ state.diagramRootEntity \notin {NoEntity, state.selectedEntity}
  /\ {last.name, Ent(state.diagramRootEntity).name} \subseteq state.diagramExpandedNodes
  /\ Cardinality(state.diagramExpandedNodes) >= 2

\* C12: startDiagramFrom(e), in any store state, makes e the selection and
\* the diagram root, makes {e.name} the expanded set and empties the
\* navigation path.
C12_StartDiagramFrom ==
  [][last'.op = "startDiagramFrom" =>
       /\ state'.selectedEntity = last'.ent
       /\ state'.diagramRootEntity = last'.ent
       /\ state'.diagramExpandedNodes = {Ent(last'.ent).name}
       /\ state'.navigationPath = <<>>]_vars

\* C12 witness: a diagram was started from an entity while the detail view
\* was drilled into a complex type.
C12_Witness ==
  /\ last.op = "startDiagramFrom"
  /\ last.was > 0
  /\ state.selectedEntity = last.ent
  /\ state.diagramRootEntity = last.ent
  /\ state.navigationPath = <<>>

\* C13: toggleDiagramNode(id) flips the membership of id in the expanded
\* set, changes the membership of no other identifier and no other field
\* of the state, and toggling the same id twice restores the expanded set.
C13_ToggleDiagramNode ==
  [][/\ last'.op = "toggleDiagramNode" =>
          LET id == last'.name IN
            /\ (id \in state'.diagramExpandedNodes) <=> (id \notin state.diagramExpandedNodes)
            /\ state'.diagramExpandedNodes \ {id} = state.diagramExpandedNodes \ {id}
            /\ [state' EXCEPT !.diagramExpandedNodes = state.diagramExpandedNodes] = state
     /\ \A id \in NamesOf(state.metadata) :
          toggleDiagramNode(toggleDiagramNode(state, id), id).diagramExpandedNodes
            = state.diagramExpandedNodes]_vars

\* C13 witness: an expanded identifier was collapsed while other
\* identifiers stayed expanded and the detail view was drilled down.
C13_Witness ==
  /\ last.op = "toggleDiagramNode"
  /\ last.was = 1
  /\ last.name \notin state.diagramExpandedNodes
  /\ state.diagramExpandedNodes # {}
  /\ state.navigationPath # <<>>

\* C14: resetDiagram makes the expanded set {root.name} when there is a
\* diagram root and empty when there is none, and changes neither the root
\* nor the selection.
C14_ResetDiagram ==
  [][last'.op = "resetDiagram" =>
       /\ state'.diagramExpandedNodes =
            (IF state.diagramRootEntity = NoEntity THEN {}
             ELSE {Ent(state.diagramRootEntity).name})
       /\ state'.diagramRootEntity = state.diagramRootEntity
       /\ state'.selectedEntity = state.selectedEntity]_vars

\* C14 witness: a diagram with several expanded nodes and a selection
\* other than the root was reset.
C14_Witness ==
  /\ last.op = "resetDiagram"
  /\ last.was >= 2
  /\ state.diagramRootEntity # NoEntity
  /\ state.selectedEntity \notin {NoEntity, state.diagramRootEntity}
  /\ state.diagramExpandedNodes = {Ent(state.diagramRootEntity).name}

\* C15: navigateInto(prop, typeName) leaves the navigation path unchanged
\* when no metadata is loaded or no complex type of the loaded metadata has
\* the name typeName or a full name ending in "." + typeName; otherwise it
\* appends the one step {complex, typeName, prop, typeName without a leading
\* "c_"} and keeps the earlier steps in order.
C15_NavigateInto ==
  [][last'.op = "navigateInto" =>
       LET typeName == last'.name
           cs == ComplexTypesOf(state.metadata)
           resolves == \E i \in 1..Len(cs) :
                          \/ cs[i].name = typeName
                          \/ /\ Len(cs[i].fullName) >= 2
                             /\ cs[i].fullName[Len(cs[i].fullName)] = typeName
           spelt == chars(typeName)
           shown == IF Len(spelt) >= 2 /\ SubSeq(spelt, 1, 2) = <<"c", "_">>
                      THEN SubSeq(spelt, 3, Len(spelt)) ELSE spelt
       IN IF state.metadata = NoMetadata \/ ~resolves
            THEN state'.navigationPath = state.navigationPath
            ELSE state'.navigationPath =
                   state.navigationPath \o
                     <<[kind |-> "complex", typeName |-> typeName,
                        propertyName |-> DrillProperty, displayName |-> shown]>>]_vars

\* C15 witness: a path of two steps whose second step is a type without
\* the "c_" prefix, entered from a type with it.
C15_Witness ==
  /\ last.op = "navigateInto"
  /\ Len(state.navigationPath) = 2
  /\ state.navigationPath[1].displayName = <<"Y">>
  /\ state.navigationPath[2].typeName = last.name
  /\ state.navigationPath[2].displayName = chars(last.name)

\* C16: navigateToIndex(i) with i >= 0 truncates the navigation path to its
\* first i+1 steps, unchanged and in order (all of them when the path has no
\* more than i+1); i = -1 empties the path; i < -1 leaves the state
\* unchanged.
C16_NavigateToIndex ==
  [][last'.op = "navigateToIndex" =>
       LET i == last'.num
           path == state.navigationPath
           kept == IF i + 1 < Len(path) THEN i + 1 ELSE Len(path)
       IN IF i < -1 THEN state' = state
          ELSE IF i = -1 THEN state'.navigationPath = <<>>
          ELSE /\ Len(state'.navigationPath) = kept
               /\ \A k \in 1..kept : state'.navigationPath[k] = path[k]]_vars

\* C16 witness: a breadcrumb click on the first step of a longer path left
\* exactly that step.
C16_Witness ==
  /\ last.op = "navigateToIndex"
  /\ last.num = 0
  /\ last.was >= 2
  /\ Len(state.navigationPath) = 1

\* Whether the last step of the navigation path names a complex type of
\* the loaded metadata, by name or by the end of its full name.
LastStepMatches(i) ==
  LET ct == ComplexTypesOf(state.metadata)[i]
      typeName == state.navigationPath[Len(state.navigationPath)].typeName
  IN ct.name = typeName \/ (Len(ct.fullName) >= 2 /\ ct.fullName[Len(ct.fullName)] = typeName)

LastStepResolves ==
  /\ state.navigationPath # <<>>
  /\ \E i \in 1..Len(ComplexTypesOf(state.metadata)) : LastStepMatches(i)

\* C17 as stated: in every store state getCurrentViewType returns the
\* complex type named by the last step of the path when the path is not
\* empty and that type resolves in the loaded metadata; otherwise the
\* selected entity when there is one; otherwise nothing.
C17_AsStated ==
  LET view == getCurrentViewType(state) IN
    IF LastStepResolves
      THEN /\ view.kind = "complex"
           /\ view.doc = state.metadata
           /\ view.idx \in 1..Len(ComplexTypesOf(state.metadata))
           /\ LastStepMatches(view.idx)
    ELSE IF state.selectedEntity # NoEntity
      THEN view = [kind |-> "entity", doc |-> state.selectedEntity.doc,
                   idx |-> state.selectedEntity.idx]
    ELSE view = NoView

\* C17: in every store state getCurrentViewType returns nothing when no
\* metadata is loaded, whatever is selected; when metadata is loaded, the
\* complex type named by the last step of the path when the path is not
\* empty and that type resolves in the loaded metadata; otherwise the
\* selected entity when there is one; otherwise nothing.
C17_CurrentViewType ==
  LET view == getCurrentViewType(state) IN
    IF state.metadata = NoMetadata THEN view = NoView
    ELSE IF LastStepResolves
      THEN /\ view.kind = "complex"
           /\ view.doc = state.metadata
           /\ view.idx \in 1..Len(ComplexTypesOf(state.metadata))
           /\ LastStepMatches(view.idx)
    ELSE IF state.selectedEntity # NoEntity
      THEN view = [kind |-> "entity", doc |-> state.selectedEntity.doc,
                   idx |-> state.selectedEntity.idx]
    ELSE view = NoView

\* C17 witness: the path's last step names a type that the loaded document
\* does not have, an entity is selected, and the view is that entity.
C17_Witness ==
  /\ state.metadata # NoMetadata
  /\ state.navigationPath # <<>>
  /\ ~LastStepResolves
  /\ state.selectedEntity # NoEntity
  /\ getCurrentViewType(state).kind = "entity"

\* How many times a notification round invoked listener l.
Invocations(round, l) ==
  Cardinality({i \in 1..Len(round.invoked) : round.invoked[i] = l})

IsSubscribed(ls, l) == \E i \in 1..Len(ls) : ls[i] = l

\* C18: every step that changes the store's state notifies; every
\* notification round invokes each subscribed observer exactly once and no
\* observer whose unsubscribe function was called; the observers of the
\* last round read the state the step leaves.
C18_ObserversNotified ==
  [][/\ state' # state => calls' # <<>>
     /\ \A k \in 1..Len(calls') :
          /\ \A l \in ListenerIds :
               Invocations(calls'[k], l) = (IF IsSubscribed(listeners', l) THEN 1 ELSE 0)
          /\ \A l \in unsubscribed' : Invocations(calls'[k], l) = 0
     /\ calls' # <<>> => calls'[Len(calls')].read = state']_vars

\* C18 witness: a successful load made two notification rounds; each
\* invoked the one observer still subscribed and not the observer that had
\* unsubscribed; the first round read the state before the loading flag was
\* written again.
C18_Witness ==
  /\ last.op = "handleParseTimeout"
  /\ Len(calls) = 2
  /\ Len(listeners) = 1
  /\ unsubscribed # {}
  /\ \A k \in 1..2 :
       /\ Invocations(calls[k], listeners[1]) = 1
       /\ \A l \in unsubscribed : Invocations(calls[k], l) = 0
  /\ calls[2].read = state
  /\ calls[1].read.metadata = state.metadata

\* C19: in every load attempt the loading flag is true at the moment the
\* deferred parse begins: it was set at dispatch and not cleared since.
C19_LoadingShownBeforeParse ==
  [][last'.op = "handleParseTimeout" => state.loading = TRUE]_vars

\* C20: an error message, once set, stays the store's error unchanged
\* until the user dismisses it, a new error replaces it or a load succeeds;
\* no other step, such as the start of a load attempt, clears it.
C20_ErrorPersists ==
  [][(state.error # NoError /\ state'.error # state.error) =>
       \/ last'.op = "dismissError"
       \/ state'.error # NoError
       \/ /\ last'.op = "handleParseTimeout"
          /\ parseODataMetadata(XmlInputs[last'.num]).ok]_vars

(***************************************************************************)
(* C21.  The loading flag is independent of the error field: dismissing a  *)
(* displayed error never changes loading, in particular not while a URL    *)
(* fetch is in flight.                                                     *)
(***************************************************************************)
C21_DismissKeepsLoading ==
  [][last'.op = "dismissError" => state'.loading = state.loading]_vars

\* The attempts in flight.
Pending == inflight.fetch + inflight.text + inflight.read + Len(timers)

\* A step of a load attempt that ends the attempt: a pending fetch, text,
\* read or timer is consumed and nothing is scheduled in its place, or the
\* click itself fails.
AttemptEnds ==
  \/ Pending' = Pending - 1
  \/ issued' = issued + 1 /\ Pending' = Pending

\* The step replaced the metadata by the document parsed from the text of
\* the timer that fired.
MetadataReplaced ==
  /\ last'.op = "handleParseTimeout"
  /\ parseODataMetadata(XmlInputs[last'.num]).ok
  /\ state'.metadata = parseODataMetadata(XmlInputs[last'.num]).metadata
  /\ state'.error = NoError

FailureMessages ==
  {MsgProvideXml, MsgEnterUrl, MsgFetchRejected, MsgFetchNotOk, MsgReadFailed,
   MsgXmlParseError, MsgRootMustBeEdmx, MsgMissingDataServices}

ErrorPublished ==
  /\ state'.error \in FailureMessages
  /\ state'.metadata = state.metadata

(***************************************************************************)
(* C22.  When fetches and file reads settle and timers fire, every load    *)
(* attempt ends; the step that ends it either replaces the metadata or     *)
(* publishes an error, never both and never neither, and consumes the      *)
(* attempt; whenever no attempt is in flight, loading is false.            *)
(***************************************************************************)
C22_AttemptsComplete ==
  /\ <>[](Pending = 0)
  /\ [](Pending = 0 => ~state.loading)
  /\ [][AttemptEnds => (MetadataReplaced # ErrorPublished)]_vars
  /\ [][Pending' <= Pending \/ issued' = issued + 1]_vars

C22_Witness ==
  /\ Pending = 0 /\ issued = MaxAttempts
  /\ last.op = "fetchSettled" /\ last.name = "notOk"
  /\ state.metadata # NoMetadata /\ state.error = MsgFetchNotOk

\* A step of the load path other than a deferred parse that succeeds.
LoadStepWithoutSuccess ==
  \/ last'.op \in {"parseClick", "fetchClick", "fetchSettled", "textSettled", "readFile",
                    "readSettled"}
  \/ last'.op = "handleParseTimeout" /\ Rejected(XmlInputs[last'.num])

(***************************************************************************)
(* C23.  A load attempt that fails (URL fetch failure, file read failure   *)
(* or parse failure) changes no store field other than error and loading:  *)
(* every step of an attempt, the deferred parse that succeeds excepted,    *)
(* leaves metadata, selectedEntity, searchQuery, collapsedNamespaces,      *)
(* diagramRootEntity, diagramExpandedNodes and navigationPath as they      *)
(* were.                                                                   *)
(***************************************************************************)
C23_FailedLoadKeepsState ==
  [][LoadStepWithoutSuccess =>
       [state' EXCEPT !.error = NoError, !.loading = FALSE]
         = [state EXCEPT !.error = NoError, !.loading = FALSE]]_vars

C23_Witness ==
  /\ last.op = "readSettled" /\ last.name = "error"
  /\ state.error = MsgReadFailed
  /\ state.metadata # NoMetadata /\ state.selectedEntity # NoEntity
  /\ state.diagramRootEntity # NoEntity /\ state.diagramExpandedNodes # {}

\* The navigation properties of the diagram root.
RootNavs == Ent(state.diagramRootEntity).navigationProperties

\* The entity that entityMap holds under the target name of the root's
\* k-th navigation property, 0 if none.
RootTarget(k) == mapGet(EntitiesOf(state.metadata), RootNavs[k].targetEntity)

\* The k-th navigation property of the root is reached before the root's
\* child loop breaks: fewer than 15 children were pushed before it.
WithinRootCap(k) ==
  Cardinality({j \in 1..(k - 1) :
                 RootTarget(j) # 0 /\ RootNavs[j].targetEntity # RootName}) < MaxChildrenRoot

\* The links that join the root's node and node j.
RootLinks(j) == {l \in LinkIdx : {g.links[l].source, g.links[l].target} = {1, j}}

\* The graph holds the target of the root's k-th navigation property as an
\* entity node of depth 1, joined to the root by exactly one link, which
\* leaves the root, is not nested and has the given multiplicity.
RootChildLinked(k, isCollection) ==
  \E j \in NodeIdx :
    /\ g.nodes[j].kind = "entity" /\ g.nodes[j].idx = RootTarget(k)
    /\ g.nodes[j].depth = 1
    /\ Cardinality(RootLinks(j)) = 1
    /\ \A l \in RootLinks(j) :
         /\ g.links[l].source = 1 /\ g.links[l].target = j
         /\ ~g.links[l].isNested
         /\ g.links[l].isCollection = isCollection

\* The first navigation property of the root with the target of the k-th.
FirstNavTo(k) ==
  CHOOSE j \in 1..k :
    /\ RootNavs[j].targetEntity = RootNavs[k].targetEntity
    /\ \A i \in 1..(j - 1) : RootNavs[i].targetEntity # RootNavs[k].targetEntity

\* C24 as stated: once the root R is expanded, every navigation property of
\* R whose target T is a known entity other than R and within R's fan-out
\* cap has T as a depth-1 node and exactly one link between R and T, from
\* R, not nested, with that property's own isCollection.
C24_AsStated ==
  (pc = "done" /\ RootName \in state.diagramExpandedNodes) =>
    \A k \in 1..Len(RootNavs) :
      (/\ RootTarget(k) # 0
       /\ [doc |-> state.metadata, idx |-> RootTarget(k)] # state.diagramRootEntity
       /\ WithinRootCap(k))
        => RootChildLinked(k, RootNavs[k].isCollection)

(***************************************************************************)
(* C24.  Once the root R is expanded, every navigation property of R whose *)
(* target name is the name of a known entity, differs from R's name and is *)
(* within R's fan-out cap has that entity as a depth-1 node and exactly    *)
(* one link between R and it, from R, not nested, whose isCollection is    *)
(* that of the first navigation property of R with this target.            *)
(***************************************************************************)
C24_RootChildLinked ==
  (pc = "done" /\ RootName \in state.diagramExpandedNodes) =>
    \A k \in 1..Len(RootNavs) :
      (/\ RootTarget(k) # 0
       /\ RootNavs[k].targetEntity # RootName
       /\ WithinRootCap(k))
        => RootChildLinked(k, RootNavs[FirstNavTo(k)].isCollection)

\* C24 witness: the build after startDiagramFrom(A) on the cyclic document
\* has returned; A's collection property Bs and its single-valued property
\* MainB both target B, which is a depth-1 node under one collection link.
C24_Witness ==
  /\ pc = "done"
  /\ state.metadata = 3 /\ RootName = "A"
  /\ state.selectedEntity = state.diagramRootEntity
  /\ state.diagramExpandedNodes = {"A"}
  /\ \E k \in 1..Len(RootNavs) :
       /\ RootNavs[k].name = "MainB" /\ ~RootNavs[k].isCollection
       /\ RootChildLinked(k, TRUE)

\* The queue items pushed when node i was visited: the loop body run again
\* on the item of node i with the visited set of that moment.
PushedBy(i) ==
  bfsIteration(state,
               [queue |-> <<[kind |-> g.nodes[i].kind, doc |-> g.nodes[i].doc,
                             idx |-> g.nodes[i].idx, depth |-> g.nodes[i].depth]>>,
                visited |-> {g.nodes[k].id : k \in 1..(i - 1)},
                nodes |-> <<>>, childCounts |-> <<>>, links |-> <<>>]).queue

\* The name of the type a queue item stands for.
ItemName(item) ==
  IF item.kind = "entity" THEN Docs[item.doc].allEntities[item.idx].name
  ELSE Cx(item.doc, item.idx).name

\* The nodes that pushed the type of node j when they were visited.
ParentsOf(j) ==
  {i \in NodeIdx : \E k \in 1..Len(PushedBy(i)) : ItemName(PushedBy(i)[k]) = g.nodes[j].id}

FirstOf(S) == CHOOSE i \in S : \A k \in S : i <= k

(***************************************************************************)
(* C30.  In a finished graph build, a type pushed as a child by two or     *)
(* more visited nodes is in the node list exactly once, and its depth is   *)
(* one more than the depth of the first of those nodes in BFS order.       *)
(***************************************************************************)
C30_FirstParentWins ==
  pc = "done" =>
    \A j \in NodeIdx : Cardinality(ParentsOf(j)) >= 2 =>
      /\ Cardinality({i \in NodeIdx : g.nodes[i].id = g.nodes[j].id}) = 1
      /\ g.nodes[j].depth = g.nodes[FirstOf(ParentsOf(j))].depth + 1

\* C30 witness: a finished build in which a type was pushed by two nodes of
\* different depths and has the depth given by the first.
C30_Witness ==
  /\ pc = "done"
  /\ \E j \in NodeIdx : \E a, b \in ParentsOf(j) :
       /\ a < b /\ g.nodes[a].depth < g.nodes[b].depth
       /\ g.nodes[j].depth = g.nodes[a].depth + 1

\* The result of a call of the named function is in g.result.
Returned(fn) == pc = "return" /\ last.op = fn

\* The texts of an entity that the search looks at; an absent base type is
\* the empty text, which contains no query.
SearchedTexts(entity) ==
  {entity.name, entity.namespace, entity.fullName, entity.baseType}
    \cup {entity.properties[i].name : i \in 1..Len(entity.properties)}
    \cup {entity.properties[i].type : i \in 1..Len(entity.properties)}
    \cup {entity.navigationProperties[i].name : i \in 1..Len(entity.navigationProperties)}
    \cup {entity.navigationProperties[i].targetEntity :
            i \in 1..Len(entity.navigationProperties)}
    \cup {entity.keyProperties[i] : i \in 1..Len(entity.keyProperties)}

\* text is s without its leading and trailing blanks.
IsTrimOf(text, s) ==
  /\ \E i, j \in 0..Len(s) :
       /\ text = SubSeq(s, i + 1, j)
       /\ \A k \in 1..Len(s) : (k <= i \/ k > j) => s[k] = " "
  /\ text = <<>> \/ (text[1] # " " /\ text[Len(text)] # " ")

(***************************************************************************)
(* C25.  With q the trimmed, lower-cased query: for an empty q the filter  *)
(* returns allEntities as it is; otherwise it returns, in their original   *)
(* order, exactly the entities of which some searched text (name,          *)
(* namespace, full name, a property name or type, a navigation-property    *)
(* name or target, a key-property name, the base type) contains q when     *)
(* lower-cased.                                                            *)
(***************************************************************************)
C25_FilterMatchesAnyField ==
  Returned("getFilteredEntities") =>
    \E q \in {trim(toLowerCase(g.input.searchQuery))} :
      /\ IsTrimOf(q, toLowerCase(g.input.searchQuery))
      /\ g.result =
           IF q = <<>> THEN g.input.metadata.allEntities
           ELSE SelectSeq(g.input.metadata.allEntities,
                          LAMBDA e : \E text \in SearchedTexts(e) :
                                       includes(toLowerCase(text), q))

\* C25 witness: a padded query in upper and lower case over three entities
\* returned two of them, which match by a navigation-property name and by
\* a property name.
C25_Witness ==
  /\ Returned("getFilteredEntities")
  /\ g.input.searchQuery = <<" ", "R", "e", "l", " ">>
  /\ Len(g.input.metadata.allEntities) = 3
  /\ Len(g.result) = 2

\* The index of the first text that contains q when lower-cased, 0 if none.
FirstMatch(texts, q) ==
  find({i \in 1..Len(texts) : includes(toLowerCase(texts[i]), q)})

\* The hint of the first category, in the order property name, property
\* type, navigation name, navigation target, namespace, key property, that
\* has a text containing the query; none when the entity's name contains
\* it.  Shown(type) is the text shown for a property type.
HintByPriority(entity, query, Shown(_)) ==
  LET q == toLowerCase(query)
      props == entity.properties
      navs == entity.navigationProperties
      categories ==
        << [label |-> "prop: ", texts |-> [i \in 1..Len(props) |-> props[i].name],
            shown |-> [i \in 1..Len(props) |-> props[i].name]],
           [label |-> "type: ", texts |-> [i \in 1..Len(props) |-> props[i].type],
            shown |-> [i \in 1..Len(props) |-> Shown(props[i].type)]],
           [label |-> "nav: ", texts |-> [i \in 1..Len(navs) |-> navs[i].name],
            shown |-> [i \in 1..Len(navs) |-> navs[i].name]],
           [label |-> "-> ", texts |-> [i \in 1..Len(navs) |-> navs[i].targetEntity],
            shown |-> [i \in 1..Len(navs) |-> navs[i].targetEntity]],
           [label |-> "ns: ", texts |-> <<entity.namespace>>, shown |-> <<entity.namespace>>],
           [label |-> "key: ", texts |-> entity.keyProperties,
            shown |-> entity.keyProperties] >>
      c == find({k \in 1..Len(categories) : FirstMatch(categories[k].texts, q) # 0})
  IN IF includes(toLowerCase(entity.name), q) \/ c = 0 THEN NoHint
     ELSE [label |-> categories[c].label,
           text |-> categories[c].shown[FirstMatch(categories[c].texts, q)]]

StripEdmPrefix(type) ==
  IF startsWith(type, <<"E", "d", "m", ".">>) THEN SubSeq(type, 5, Len(type)) ELSE type

\* C26 as stated: for a non-empty query there is no hint when the entity's
\* name contains the query; otherwise the hint is that of the first
\* matching category, a property type being shown with its 'Edm.' prefix
\* stripped.
C26_AsStated ==
  (Returned("getMatchHint") /\ g.input.query # <<>>) =>
    g.result = HintByPriority(g.input.entity, g.input.query, StripEdmPrefix)

(***************************************************************************)
(* C26.  For a non-empty query there is no hint when the entity's name     *)
(* contains the query, whatever else matches; otherwise the hint is that   *)
(* of the first matching category in the order property name, property     *)
(* type, navigation name, navigation target, namespace, key property, a    *)
(* property type being shown with its first occurrence of 'Edm.' removed.  *)
(***************************************************************************)
C26_HintByPriority ==
  (Returned("getMatchHint") /\ g.input.query # <<>>) =>
    g.result = HintByPriority(g.input.entity, g.input.query,
                              LAMBDA type : replaceFirst(type, <<"E", "d", "m", ".">>))

\* C26 witness: the hint for a query that only the type of a collection
\* property contains shows the type without the 'Edm.' inside it.
C26_Witness ==
  /\ Returned("getMatchHint")
  /\ g.input.query = <<"s", "t", "r", "i", "n", "g">>
  /\ g.result.label = "type: "
  /\ startsWith(g.result.text, CollectionOpen)
  /\ ~includes(g.result.text, <<"E", "d", "m", ".">>)

\* The (entity, navigation property) pairs of a document whose target is
\* the name of one of its entities.
ResolvedPairs(d) ==
  {<<i, k>> \in (1..Len(EntitiesOf(d))) \X (1..RootFan + 1) :
     /\ k <= Len(EntitiesOf(d)[i].navigationProperties)
     /\ \E j \in 1..Len(EntitiesOf(d)) :
          EntitiesOf(d)[j].name = EntitiesOf(d)[i].navigationProperties[k].targetEntity}

\* The edge that stands for a pair.
EdgeOf(d, pair) ==
  LET entity == EntitiesOf(d)[pair[1]]
      nav == entity.navigationProperties[pair[2]]
  IN [sourceEntity |-> entity.name, targetEntity |-> nav.targetEntity,
      navProp |-> nav.name, isCollection |-> nav.isCollection]

(***************************************************************************)
(* C27.  extractRelationships returns one edge for each (entity,           *)
(* navigation property) pair whose target is the name of an entity of      *)
(* allEntities and no other edge: every returned edge stands for such a    *)
(* pair, and an edge occurs as many times as there are pairs it stands     *)
(* for, so nothing is de-duplicated.                                       *)
(***************************************************************************)
C27_OneEdgePerResolvedNav ==
  Returned("extractRelationships") =>
    /\ Len(g.result) = Cardinality(ResolvedPairs(g.input))
    /\ \A n \in 1..Len(g.result) :
         \E pair \in ResolvedPairs(g.input) : g.result[n] = EdgeOf(g.input, pair)
    /\ \A pair \in ResolvedPairs(g.input) :
         Cardinality({n \in 1..Len(g.result) : g.result[n] = EdgeOf(g.input, pair)})
           = Cardinality({other \in ResolvedPairs(g.input) :
                            EdgeOf(g.input, other) = EdgeOf(g.input, pair)})

\* C27 witness: the edges of the cyclic document hold A -> B twice (Bs and
\* MainB), the reciprocal B -> A, and nothing to the undeclared External.
C27_Witness ==
  /\ Returned("extractRelationships")
  /\ g.input = 3
  /\ Cardinality({n \in 1..Len(g.result) :
                    g.result[n].sourceEntity = "A" /\ g.result[n].targetEntity = "B"}) = 2
  /\ \E n \in 1..Len(g.result) :
       g.result[n].sourceEntity = "B" /\ g.result[n].targetEntity = "A"
  /\ \A n \in 1..Len(g.result) : g.result[n].targetEntity # "External"

\* The nodes of the result that share the depth of node i.
Row(i) == {j \in 1..Len(g.result) : g.result[j].depth = g.result[i].depth}

(***************************************************************************)
(* C28.  After layout every node's y is its depth times the level height;  *)
(* of two nodes of one depth the one earlier in the list has the smaller x *)
(* and its extent [x - width/2, x + width/2] ends before the other's       *)
(* begins, exactly the fixed gap before it when no node of the row lies    *)
(* between them; and the extents of a row reach as far left of x = 0 as    *)
(* right of it.  Coordinates are doubled: a doubled extent is              *)
(* [x2 - width, x2 + width].                                               *)
(***************************************************************************)
C28_RowsLaidOut ==
  Returned("layoutNodes") =>
    /\ Len(g.result) = Len(g.input)
    /\ \A i \in 1..Len(g.result) :
         /\ g.result[i].y = g.result[i].depth * LEVEL_HEIGHT
         /\ g.result[i].depth = g.input[i].depth /\ g.result[i].width = g.input[i].width
         /\ \E lo, hi \in Row(i) :
              /\ \A j \in Row(i) : lo <= j /\ j <= hi
              /\ (g.result[lo].x2 - g.result[lo].width)
                   + (g.result[hi].x2 + g.result[hi].width) = 0
    /\ \A i, j \in 1..Len(g.result) : (i < j /\ j \in Row(i)) =>
         /\ g.result[i].x2 < g.result[j].x2
         /\ g.result[i].x2 + g.result[i].width < g.result[j].x2 - g.result[j].width
         /\ (\A k \in Row(i) : ~(i < k /\ k < j)) =>
              (g.result[j].x2 - g.result[j].width) - (g.result[i].x2 + g.result[i].width)
                = 2 * NODE_SPACING

\* C28 witness: three nodes of one depth with the minimum, an even and an
\* odd width were laid out with a node of another depth between them in the
\* list.
C28_Witness ==
  /\ Returned("layoutNodes")
  /\ Len(g.result) = 4
  /\ \E i \in 1..4 :
       /\ Cardinality(Row(i)) = 3 /\ 2 \notin Row(i)
       /\ {g.result[j].width : j \in Row(i)} = {60, 66, 87}
       /\ \E j \in Row(i) : g.result[j].x2 % 2 = 1

\* The text after the last '.' of a text, the whole text when it has none.
LastSegment(text) ==
  CHOOSE seg \in {SubSeq(text, i + 1, Len(text)) : i \in 0..Len(text)} :
    /\ \A k \in 1..Len(seg) : seg[k] # "."
    /\ Len(seg) = Len(text) \/ text[Len(text) - Len(seg)] = "."

\* The text between 'Collection(' and the final ')' of a type of that form.
Inner(type) == SubSeq(type, Len(CollectionOpen) + 1, Len(type) - 1)

\* The type is 'Collection(' X ')' for some text X.
IsCollectionForm(type) ==
  /\ startsWith(type, CollectionOpen)
  /\ Len(type) > Len(CollectionOpen) /\ type[Len(type)] = ")"

\* C29 as stated: the raw type is kept; a type Collection(X) gives
\* isCollection and the last dot-separated segment of X; a type that does
\* not start as a collection gives no isCollection and its own last
\* segment.
C29_AsStated ==
  Returned("parseNavigationProperty") =>
    /\ g.result.type = g.input
    /\ IsCollectionForm(g.input) =>
         (g.result.isCollection /\ g.result.targetEntity = LastSegment(Inner(g.input)))
    /\ ~startsWith(g.input, CollectionOpen) =>
         (~g.result.isCollection /\ g.result.targetEntity = LastSegment(g.input))

(***************************************************************************)
(* C29.  The raw type is kept in N.type; a type Collection(X) with a       *)
(* non-empty X gives isCollection = true and the last dot-separated        *)
(* segment of X as targetEntity; a type that does not start with           *)
(* 'Collection(' gives isCollection = false and its own last segment.      *)
(***************************************************************************)
C29_TargetIsLastSegment ==
  Returned("parseNavigationProperty") =>
    /\ g.result.type = g.input
    /\ (IsCollectionForm(g.input) /\ Inner(g.input) # <<>>) =>
         (g.result.isCollection /\ g.result.targetEntity = LastSegment(Inner(g.input)))
    /\ ~startsWith(g.input, CollectionOpen) =>
         (~g.result.isCollection /\ g.result.targetEntity = LastSegment(g.input))

\* C29 witness: Collection(N.B) was parsed to the target B.
C29_Witness ==
  /\ Returned("parseNavigationProperty")
  /\ g.input = CollectionOpen \o <<"N", ".", "B", ")">>
  /\ g.result.isCollection
  /\ g.result.targetEntity = <<"B">>
  /\ g.result.type = g.input

\* The child candidates of a queue item in the order the claim gives them:
\* the properties whose target is a known type not in `visited', as pairs
\* of kind and name; for an entity the navigation targets come first, for
\* a complex type the nested collections.
ChildOrder(item, visited) ==
  LET type == IF item.kind = "entity" THEN Docs[item.doc].allEntities[item.idx]
              ELSE Cx(item.doc, item.idx)
      navs == type.navigationProperties
      nested == getNestedCollections(state, type.properties)
      navTargets ==
        SelectSeq([k \in 1..Len(navs) |-> [kind |-> "entity", name |-> navs[k].targetEntity]],
                  LAMBDA c : c.name \in NamesOf(state.metadata) /\ c.name \notin visited)
      nestedTargets ==
        SelectSeq([k \in 1..Len(nested) |-> [kind |-> "complex", name |-> nested[k].typeName]],
                  LAMBDA c : c.name \in ComplexNamesOf(state.metadata) /\ c.name \notin visited)
  IN IF item.kind = "entity" THEN navTargets \o nestedTargets
     ELSE nestedTargets \o navTargets

\* The fan-out cap of a node.
CapOf(node) ==
  IF node.isRoot THEN MaxChildrenRoot
  ELSE IF node.kind = "entity" THEN MaxChildrenEntity ELSE MaxChildrenComplex

\* The queue item a node was visited from.
ItemOf(node) == [kind |-> node.kind, doc |-> node.doc, idx |-> node.idx, depth |-> node.depth]

\* The claimed children of node i: its candidates in the claimed order, cut
\* at the cap.
TakenIn(nodes, i) ==
  LET order == ChildOrder(ItemOf(nodes[i]), {nodes[k].id : k \in 1..i})
      cap == CapOf(nodes[i])
  IN SubSeq(order, 1, IF Len(order) < cap THEN Len(order) ELSE cap)

TakenBy(i) == TakenIn(g.nodes, i)

(***************************************************************************)
(* C31.  Whenever the BFS loop visits the root or an expanded node, the    *)
(* items it appends to the queue are the node's child candidates taken in  *)
(* a fixed order up to the cap: for an entity its navigation targets in    *)
(* declaration order and then its nested complex-type collections, for a   *)
(* complex type its nested collections and then its navigation targets.    *)
(***************************************************************************)
C31_CandidatesInOrder ==
  [][(pc = "bfs" /\ Len(g'.nodes) > Len(g.nodes) /\ linksFrom(Last(g'.nodes))) =>
       LET i == Len(g'.nodes)
           taken == TakenIn(g'.nodes, i)
           pushed == SubSeq(g'.queue, Len(g.queue), Len(g'.queue))
       IN /\ Len(pushed) = Len(taken)
          /\ \A k \in 1..Len(taken) :
                /\ pushed[k].kind = taken[k].kind
                /\ ItemName(pushed[k]) = taken[k].name
                /\ pushed[k].depth = g'.nodes[i].depth + 1]_vars

\* C31 witness: a finished build in which the root entity had more
\* candidates than its cap and dropped its nested collection after fifteen
\* navigation targets, and an expanded complex type had more candidates
\* than its cap and dropped a navigation target after six nested
\* collections.
C31_Witness ==
  /\ pc = "done"
  /\ \E i, j \in NodeIdx :
       /\ g.nodes[i].isRoot /\ g.nodes[j].kind = "complex" /\ g.nodes[j].isExpanded
       /\ LET order == ChildOrder(ItemOf(g.nodes[i]), {g.nodes[k].id : k \in 1..i})
          IN /\ Len(order) > MaxChildrenRoot
             /\ order[Len(order)].kind = "complex"
             /\ \A k \in 1..Len(TakenBy(i)) : TakenBy(i)[k].kind = "entity"
             /\ \A k \in 1..Len(TakenBy(i)) :
                   \E n \in NodeIdx : g.nodes[n].id = TakenBy(i)[k].name /\ g.nodes[n].depth = 1
       /\ LET order == ChildOrder(ItemOf(g.nodes[j]), {g.nodes[k].id : k \in 1..j})
          IN /\ Len(order) > MaxChildrenComplex
             /\ order[Len(order)].kind = "entity"
             /\ \A k \in 1..Len(TakenBy(j)) : TakenBy(j)[k].kind = "complex"
             /\ \A k \in 1..Len(TakenBy(j)) :
                   \E n \in NodeIdx : /\ g.nodes[n].id = TakenBy(j)[k].name
                                       /\ g.nodes[n].depth = g.nodes[j].depth + 1
             /\ \A n \in NodeIdx : g.nodes[n].id # order[Len(order)].name

(***************************************************************************)
(* C32.  After a click on the clear button, searchQuery is '' until the    *)
(* user types again: while the user's last gesture on the search box is    *)
(* the clear click, the stored query is empty.                             *)
(***************************************************************************)
C32_ClearedStaysEmpty ==
  pc = "cleared" => state.searchQuery = <<>>

\* The store shows the outcome of a fetch that settled with `response': the
\* message of its failure, or the document parsed from its text and no
\* error.
Reflects(response) ==
  IF response.kind = "text"
    THEN LET r == parseODataMetadata(XmlInputs[response.text])
         IN IF r.ok THEN state.metadata = r.metadata /\ state.error = NoError
            ELSE state.error = r.message
    ELSE state.error = MsgFetchRejected

(***************************************************************************)
(* C33.  When load attempts have overlapped and all of them have           *)
(* completed, the store's metadata and error are those of the most         *)
(* recently issued attempt.                                                *)
(***************************************************************************)
C33_LatestAttemptWins ==
  (g.overlap /\ g.pending = {} /\ g.reading = {} /\ timers = <<>>) =>
    Reflects(g.latest.response)

\* The emitted links that join nodes i and j.
LinksBetween(i, j) == {l \in LinkIdx : {g.links[l].source, g.links[l].target} = {i, j}}

\* Node p is one level above node j and is the root or is expanded.
IsParentLevel(p, j) ==
  /\ g.nodes[p].depth = g.nodes[j].depth - 1
  /\ (g.nodes[p].id = RootName \/ g.nodes[p].id \in state.diagramExpandedNodes)

(***************************************************************************)
(* C34.  In a finished build every node of depth d >= 1 is an endpoint of  *)
(* a link whose other endpoint is a node of depth d - 1 that is the root   *)
(* or is in the expanded set, and the node list is in non-decreasing order *)
(* of depth.                                                               *)
(***************************************************************************)
C34_ConnectedByLevel ==
  pc = "done" =>
    /\ \A j \in NodeIdx : g.nodes[j].depth >= 1 =>
          \E p \in NodeIdx : IsParentLevel(p, j) /\ LinksBetween(p, j) # {}
    /\ \A i, j \in NodeIdx : i < j => g.nodes[i].depth <= g.nodes[j].depth

\* C34 witness: a finished build with a node of depth 2 or more that is
\* linked to an expanded node one level up and to no node of another
\* level, while a node of its own level refers to it as well.
C34_Witness ==
  /\ pc = "done"
  /\ \E j, p, q \in NodeIdx :
       /\ g.nodes[j].depth >= 2 /\ p # q
       /\ IsParentLevel(p, j) /\ ~g.nodes[p].isRoot /\ LinksBetween(p, j) # {}
       /\ g.nodes[q].depth = g.nodes[j].depth
       /\ g.nodes[j].id \in TargetsOf(g.nodes[q])
       /\ \A l \in LinkIdx : \A n \in NodeIdx :
             (l \in LinksBetween(n, j) /\ n # j) => g.nodes[n].depth = g.nodes[j].depth - 1

\* The names of the known types that the properties of node i refer to.
DistinctTargets(i) ==
  LET order == ChildOrder(ItemOf(g.nodes[i]), {})
  IN {order[k].name : k \in 1..Len(order)} \ {g.nodes[i].id}

\* Node i pushes children: the root, an expanded entity or an expanded
\* complex type.
Expands(i) == g.nodes[i].isRoot \/ g.nodes[i].isExpanded

(***************************************************************************)
(* C35.  In a finished build, when the distinct known types an expanded    *)
(* node refers to are no more than its cap, each of them is in the node    *)
(* list, even if several properties of the node name the same type.        *)
(***************************************************************************)
C35_CapCountsDistinct ==
  pc = "done" =>
    \A i \in NodeIdx :
      (Expands(i) /\ Cardinality(DistinctTargets(i)) <= CapOf(g.nodes[i])) =>
        \A t \in DistinctTargets(i) : \E n \in NodeIdx : g.nodes[n].id = t

\* The identifiers of the nodes emitted for the store state s.
EmittedIds(s) ==
  LET nodes == bfsLoop(s, InitialGraph(s)).nodes
  IN {nodes[k].id : k \in 1..Len(nodes)}

\* The store state with x added to the expanded set.
Expanded(x) == [state EXCEPT !.diagramExpandedNodes = @ \cup {x}]

(***************************************************************************)
(* C36.  For the metadata and root of a finished build with expanded set   *)
(* E, every emitted node is also emitted by the build with x added to E,   *)
(* for every identifier x.                                                 *)
(***************************************************************************)
C36_ExpandingIsMonotone ==
  pc = "done" =>
    \A x \in ExpandChoices(state.metadata) :
      {g.nodes[k].id : k \in NodeIdx} \subseteq EmittedIds(Expanded(x))

(***************************************************************************)
(* C37.  For a non-empty stored query, every entity item of the rendered   *)
(* list is explained: the entity's name contains the query (whatever the   *)
(* case of the letters) or the item has a match hint.                      *)
(***************************************************************************)
C37_MatchesExplained ==
  (Returned("renderNamespaceList") /\ g.input.searchQuery # <<>>) =>
    \A k \in 1..Len(g.result) :
      \/ includes(toLowerCase(g.result[k].entity.name), toLowerCase(g.input.searchQuery))
      \/ g.result[k].hint # NoHint

\* A reference that is none or an entity of the loaded document.
IsCurrent(ref) == ref = NoEntity \/ ref \in EntityRefs(state.metadata)

(***************************************************************************)
(* C38.  After any sequence of loads, clears and selections whose callers  *)
(* pass entities of the loaded metadata only, selectedEntity and           *)
(* diagramRootEntity are each none or an entity of the current metadata,   *)
(* and both are none when no metadata is loaded.                           *)
(***************************************************************************)
C38_NoDanglingReferences ==
  /\ IsCurrent(state.selectedEntity)
  /\ IsCurrent(state.diagramRootEntity)
  /\ state.metadata = NoMetadata =>
       (state.selectedEntity = NoEntity /\ state.diagramRootEntity = NoEntity)

\* C38 witness: a document has just been loaded over a state that had a
\* diagram with expanded nodes, and neither reference is left.
C38_Witness ==
  /\ last.op = "setMetadata" /\ last.num = 2 /\ last.was > 0
  /\ state.metadata = 2
  /\ state.selectedEntity = NoEntity /\ state.diagramRootEntity = NoEntity

(***************************************************************************)
(* C39.  After any sequence of store transitions, a selected entity        *)
(* implies a diagram root: selectedEntity is none or diagramRootEntity is  *)
(* not none.                                                               *)
(***************************************************************************)
C39_SelectionHasRoot ==
  state.selectedEntity # NoEntity => state.diagramRootEntity # NoEntity
====
